---- MODULE Spec2Model ----
(***************************************************************************)
(* A model of the module-resolution and asset-processing core of jgb:      *)
(* Resolver (packages/jgb-shared/src/Resolver.ts, lines 13-505) and Asset  *)
(* (same file, lines 523-959).                                             *)
(*                                                                         *)
(* Strings are modelled as sequences of one-character strings, so that     *)
(* String.prototype.includes / replace / startsWith and Node's posix path  *)
(* functions are computed character by character, as the code computes     *)
(* them.  The empty sequence << >> is the empty string.                    *)
(***************************************************************************)
EXTENDS Integers, Sequences, FiniteSets, TLC

(***************************************************************************)
(* A value bound once: With(e, LAMBDA x : body) is body with x bound to    *)
(* the value of e.                                                         *)
(***************************************************************************)
With(v, Body(_)) == Body(v)

(***************************************************************************)
(* String primitives (JavaScript String.prototype)                         *)
(***************************************************************************)
\* s.startsWith(t)
StartsWith(s, t) == Len(t) <= Len(s) /\ SubSeq(s, 1, Len(t)) = t

RECURSIVE IndexFrom(_, _, _)
\* the first position >= i at which t occurs in s, 0 when there is none
IndexFrom(s, t, i) ==
  IF i + Len(t) - 1 > Len(s) THEN 0
  ELSE IF SubSeq(s, i, i + Len(t) - 1) = t THEN i
  ELSE IndexFrom(s, t, i + 1)

\* s.indexOf(t) + 1  (0 when t does not occur in s)
IndexOf(s, t) == IndexFrom(s, t, 1)

\* s.includes(t)
Includes(s, t) == IndexOf(s, t) # 0

\* s with the occurrence of t at position i (0: none) replaced by r
ReplaceAt(s, t, r, i) ==
  IF i = 0 THEN s
  ELSE SubSeq(s, 1, i - 1) \o r \o SubSeq(s, i + Len(t), Len(s))

\* s.replace(t, r) with a string pattern: the first occurrence only
Replace(s, t, r) == ReplaceAt(s, t, r, IndexOf(s, t))

\* s.slice(1)
Slice1(s) == SubSeq(s, 2, Len(s))

RECURSIVE SplitAcc(_, _, _, _)
\* s.split("/") from position i on, cur being the part read so far
SplitAcc(s, i, cur, acc) ==
  IF i > Len(s) THEN Append(acc, cur)
  ELSE IF s[i] = "/" THEN SplitAcc(s, i + 1, << >>, Append(acc, cur))
  ELSE SplitAcc(s, i + 1, Append(cur, s[i]), acc)

\* s.split("/")
Split(s) == SplitAcc(s, 1, << >>, << >>)

RECURSIVE JoinWith(_, _)
\* parts.join(sep)
JoinWith(parts, sep) ==
  IF parts = << >> THEN << >>
  ELSE IF Len(parts) = 1 THEN parts[1]
  ELSE parts[1] \o sep \o JoinWith(Tail(parts), sep)

RECURSIVE NonEmpty(_)
\* the non-empty strings of a list, in order
NonEmpty(parts) ==
  IF parts = << >> THEN << >>
  ELSE IF parts[1] = << >> THEN NonEmpty(Tail(parts))
  ELSE <<parts[1]>> \o NonEmpty(Tail(parts))

RECURSIVE LastIndexOfChar(_, _, _)
\* the last position in lo..i at which s holds the character ch, 0 when there is none
LastIndexOfChar(s, ch, i) ==
  IF i < 1 THEN 0
  ELSE IF s[i] = ch THEN i
  ELSE LastIndexOfChar(s, ch, i - 1)

(***************************************************************************)
(* Node's posix path module                                                *)
(***************************************************************************)
DOT == <<".">>

DOTDOT == <<".", ".">>

SEP == <<"/">>

\* path.isAbsolute(p)
isAbsolute(p) == Len(p) > 0 /\ p[1] = "/"

RECURSIVE NormSegs(_, _, _)
\* normalizeString: the segments of a path with "", "." dropped and ".." resolved
NormSegs(segs, acc, allowAboveRoot) ==
  IF segs = << >> THEN acc
  ELSE IF segs[1] = << >> \/ segs[1] = DOT THEN NormSegs(Tail(segs), acc, allowAboveRoot)
  ELSE IF segs[1] = DOTDOT THEN
    IF acc # << >> /\ acc[Len(acc)] # DOTDOT
      THEN NormSegs(Tail(segs), SubSeq(acc, 1, Len(acc) - 1), allowAboveRoot)
    ELSE IF allowAboveRoot
      THEN NormSegs(Tail(segs), Append(acc, DOTDOT), allowAboveRoot)
    ELSE NormSegs(Tail(segs), acc, allowAboveRoot)
  ELSE NormSegs(Tail(segs), Append(acc, segs[1]), allowAboveRoot)

\* the end of path.normalize: body is the normalized string of segments
NormalizeTail(p, body) ==
  IF isAbsolute(p)
    THEN SEP \o body \o (IF body # << >> /\ p[Len(p)] = "/" THEN SEP ELSE << >>)
  ELSE IF body = << >> THEN (IF p[Len(p)] = "/" THEN <<".", "/">> ELSE DOT)
  ELSE body \o (IF p[Len(p)] = "/" THEN SEP ELSE << >>)

\* path.normalize(p)
normalize(p) ==
  IF p = << >> THEN DOT
  ELSE NormalizeTail(p, JoinWith(NormSegs(Split(p), << >>, ~isAbsolute(p)), SEP))

\* path.join(...parts)
join(parts) == normalize(JoinWith(NonEmpty(parts), SEP))

RECURSIVE ResolveRaw(_, _)
\* the right-to-left concatenation of path.resolve, stopping at an absolute part
ResolveRaw(parts, acc) ==
  IF isAbsolute(acc) \/ parts = << >> THEN acc
  ELSE IF parts[Len(parts)] = << >> THEN ResolveRaw(SubSeq(parts, 1, Len(parts) - 1), acc)
  ELSE ResolveRaw(SubSeq(parts, 1, Len(parts) - 1), parts[Len(parts)] \o SEP \o acc)

\* the end of path.resolve: raw is the concatenation, absolute or not
ResolveTail(cwd, raw) ==
  SEP \o JoinWith(NormSegs(Split(IF isAbsolute(raw) THEN raw ELSE cwd \o SEP \o raw),
                           << >>, FALSE), SEP)

\* path.resolve(...parts) in a process whose working directory is cwd
resolveFrom(cwd, parts) == ResolveTail(cwd, ResolveRaw(parts, << >>))

RECURSIVE StripTrail(_, _)
\* the length of p[1..n] without its trailing slashes (the first character is kept)
StripTrail(p, n) ==
  IF n > 1 /\ p[n] = "/" THEN StripTrail(p, n - 1) ELSE n

RECURSIVE LastSlash(_, _, _)
\* the last position in lo..i at which p holds a slash, 0 when there is none
LastSlash(p, lo, i) ==
  IF i < lo THEN 0
  ELSE IF p[i] = "/" THEN i
  ELSE LastSlash(p, lo, i - 1)

\* the end of path.dirname: e is the position of the last slash after the first
\* character, trailing slashes not counted (0: none)
DirnameTail(p, e) ==
  IF e = 0 THEN (IF isAbsolute(p) THEN SEP ELSE DOT)
  ELSE IF isAbsolute(p) /\ e = 2 THEN <<"/", "/">>
  ELSE SubSeq(p, 1, e - 1)

\* path.dirname(p)
dirname(p) ==
  IF p = << >> THEN DOT
  ELSE DirnameTail(p, LastSlash(p, 2, StripTrail(p, Len(p))))

\* the end of path.basename: n is the length without trailing slashes
BasenameTail(p, n) ==
  IF n = 1 /\ p[1] = "/" THEN << >>
  ELSE SubSeq(p, LastSlash(p, 1, n) + 1, n)

\* path.basename(p)
basename(p) == IF p = << >> THEN << >> ELSE BasenameTail(p, StripTrail(p, Len(p)))

\* the end of path.extname: b is the base name, k the position of its last dot
ExtnameTail(b, k) ==
  IF k <= 1 \/ b = DOTDOT THEN << >> ELSE SubSeq(b, k, Len(b))

ExtnameOfBase(b) == ExtnameTail(b, LastIndexOfChar(b, ".", Len(b)))

\* path.extname(p)
extname(p) == ExtnameOfBase(basename(p))

RECURSIVE CommonLen(_, _)
\* the number of leading segments two segment lists share
CommonLen(a, b) ==
  IF a = << >> \/ b = << >> \/ a[1] # b[1] THEN 0
  ELSE 1 + CommonLen(Tail(a), Tail(b))

\* the end of path.relative: fs and ts are the segments of the two resolved
\* paths, c the number of leading segments they share
RelativeSegs(fs, ts, c) ==
  JoinWith([ i \in 1..(Len(fs) - c) |-> DOTDOT ] \o SubSeq(ts, c + 1, Len(ts)), SEP)

RelativeSplit(fs, ts) == RelativeSegs(fs, ts, CommonLen(fs, ts))

RelativeResolved(f, t) ==
  IF f = t THEN << >> ELSE RelativeSplit(NonEmpty(Split(f)), NonEmpty(Split(t)))

\* path.relative(from, to)
relativeFrom(cwd, from, to) ==
  RelativeResolved(resolveFrom(cwd, <<from>>), resolveFrom(cwd, <<to>>))

\* path.parse(dir).root
parseRoot(dir) == IF isAbsolute(dir) THEN SEP ELSE << >>

(***************************************************************************)
(* String literals                                                         *)
(***************************************************************************)
NODE_MODULES == << "n", "o", "d", "e", "_", "m", "o", "d", "u", "l", "e", "s" >>

PACKAGE_JSON == << "p", "a", "c", "k", "a", "g", "e", ".", "j", "s", "o", "n" >>

INDEX == << "i", "n", "d", "e", "x" >>

\* const DEFAULT_NPM_DIR = 'npm'
DEFAULT_NPM_DIR == << "n", "p", "m" >>

\* process.cwd()
Cwd == << "/", "p" >>

\* IInitOptions of the build: rootDir, sourceDir, outDir
rootDir == << "/", "p" >>

sourceDir == << "/", "p", "/", "s" >>

outDir == << "/", "p", "/", "o" >>

(***************************************************************************)
(* utils: pathToUnixType, normalizeAlias, promoteRelativePath              *)
(***************************************************************************)
\* pathToUnixType(p): every platform separator becomes "/"
pathToUnixType(p) == [ i \in 1..Len(p) |-> IF p[i] = "\\" THEN "/" ELSE p[i] ]

\* An alias value of the configuration: a string, or a record {path, dist}.
\* A missing or empty dist is << >> (both are falsy in the code).
AliasString(p) == [ form |-> "string", path |-> p, dist |-> << >> ]

AliasRecord(p, d) == [ form |-> "record", path |-> p, dist |-> d ]

\* normalizeAlias(v): {path, dist} of a string or record alias value
normalizeAlias(v) ==
  IF v.form = "string" THEN [ path |-> v.path, dist |-> << >> ]
  ELSE [ path |-> v.path, dist |-> v.dist ]

\* promoteRelativePath(p): "./" is put before a path that starts with neither "." nor "/"
promoteRelativePath(p) ==
  IF p # << >> /\ (p[1] = "." \/ p[1] = "/") THEN p ELSE << ".", "/" >> \o p

(***************************************************************************)
(* Asset.generateDistPath (Resolver.ts 759-830) and its module-level cache *)
(***************************************************************************)
\* string.match(REG_NODE_MODULES) is not null, REG_NODE_MODULES being
\* /(\/node_modules\/|\/npm\/)/g (525)
MatchesNodeModules(s) == Includes(s, << "/", "n", "o", "d", "e", "_", "m", "o", "d", "u", "l", "e", "s", "/" >>) \/ Includes(s, << "/", "n", "p", "m", "/" >>)

\* the first match of REG_NODE_MODULES in s as <<position, length>>, <<0, 0>> when none
FirstMatch(s, iNm, iNpm) ==
  IF iNm = 0 /\ iNpm = 0 THEN <<0, 0>>
  ELSE IF iNpm = 0 \/ (iNm # 0 /\ iNm < iNpm) THEN <<iNm, Len(<< "/", "n", "o", "d", "e", "_", "m", "o", "d", "u", "l", "e", "s", "/" >>)>>
  ELSE <<iNpm, Len(<< "/", "n", "p", "m", "/" >>)>>

RECURSIVE SplitPop(_)
\* name.split(REG_NODE_MODULES).pop(): what follows the last match of the
\* left-to-right scan for non-overlapping matches
SplitPop(s) ==
  With(FirstMatch(s, IndexOf(s, << "/", "n", "o", "d", "e", "_", "m", "o", "d", "u", "l", "e", "s", "/" >>), IndexOf(s, << "/", "n", "p", "m", "/" >>)), LAMBDA m :
    IF m[1] = 0 THEN s ELSE SplitPop(SubSeq(s, m[1] + m[2], Len(s))))

\* the extension reconciliation at the end of generateDistPath (818-826)
ReconcileExtName(distPath, extName, ext) ==
  IF extName = << >> THEN distPath \o ext
  ELSE IF ext # << >> /\ extName # ext THEN Replace(distPath, extName, ext)
  ELSE distPath

ReconcileDistExt(distPath, ext) == ReconcileExtName(distPath, extname(distPath), ext)

\* one round of the while loop (772-795) for the entry aliasName -> normalizedAlias:
\* the distPath it sets, << >> when it does not break out of the loop
AliasRound(aliasName, normalizedAlias, srcDir, name) ==
  IF Includes(name, srcDir)
    THEN join(<<outDir, relativeFrom(Cwd, srcDir, name)>>)
  ELSE IF Includes(name, normalizedAlias.path)
    THEN join(<<outDir,
                IF normalizedAlias.dist # << >> THEN normalizedAlias.dist ELSE DEFAULT_NPM_DIR,
                aliasName,
                relativeFrom(Cwd, normalizedAlias.path, name)>>)
  ELSE << >>

RECURSIVE AliasDirsLoop(_, _, _)
\* the while loop over Object.entries(alias) (771-796): the distPath it
\* leaves, << >> when no entry breaks out of the loop
AliasDirsLoop(aliasDirs, srcDir, name) ==
  IF aliasDirs = << >> THEN << >>
  ELSE With(AliasRound(aliasDirs[1][1], normalizeAlias(aliasDirs[1][2]), srcDir, name),
            LAMBDA d : IF d # << >> THEN d ELSE AliasDirsLoop(Tail(aliasDirs), srcDir, name))

\* the node_modules/npm rule (804-811) applied to the distPath d1 of the loop
NpmRule(d1, name) ==
  IF (d1 = << >> /\ MatchesNodeModules(name)) \/ MatchesNodeModules(d1)
    THEN join(<<outDir, DEFAULT_NPM_DIR, SplitPop(name)>>)
  ELSE d1

\* the fallback (813-816) applied to the distPath d2 of the rules before it
FallbackRule(d2, srcDir, name) ==
  IF d2 = << >> THEN join(<<outDir, relativeFrom(Cwd, srcDir, name)>>) ELSE d2

DistPathOfName(alias, srcDir, name, ext) ==
  ReconcileDistExt(
    FallbackRule(NpmRule(pathToUnixType(AliasDirsLoop(alias, srcDir, name)), name),
                 srcDir, name),
    ext)

\* generateDistPath on a cache miss (764-826): alias is the ordered list of
\* <<aliasName, aliasValue>> entries of options.alias
ComputeDistPath(alias, sourcePath, ext) ==
  DistPathOfName(alias, resolveFrom(Cwd, <<sourceDir>>), pathToUnixType(sourcePath), ext)

\* generateDistPath(sourcePath, ext) (759-830) against the module-level cache
\* c (a function from source paths to dist paths): the path returned
generateDistPath(c, alias, sourcePath, ext) ==
  IF sourcePath \in DOMAIN c THEN c[sourcePath]
  ELSE ComputeDistPath(alias, sourcePath, ext)

\* the module-level cache after generateDistPath(sourcePath, ext)
CacheAfterGenerate(c, alias, sourcePath, ext) ==
  IF sourcePath \in DOMAIN c THEN c
  ELSE [ k \in DOMAIN c \cup {sourcePath} |->
           IF k = sourcePath THEN ComputeDistPath(alias, sourcePath, ext) ELSE c[k] ]

(***************************************************************************)
(* State                                                                   *)
(***************************************************************************)
VARIABLES
  options,      \* IInitOptions: the alias table of the build (fixed per build)
  distCache,    \* const cache = new Map<string, string>() (Resolver.ts 527)
  lastGen,      \* the last generateDistPath call: its arguments and result
  genCalls,     \* the number of direct generateDistPath calls so far
  asset,        \* the fields of one Asset
  fileContents, \* what fs.readFile(asset.name) yields
  pc,           \* the position of the Asset's process() call
  queue,        \* the generated items process() has still to output
  trace,        \* the phase invocations of the current process() call
  lastOut,      \* the last output() call: what it returned and what it wrote
  disk,         \* the files written under the output tree: path -> data
  processCalls, \* the number of process() calls so far
  fileSystem,   \* the file system the Resolver reads
  cache,        \* Resolver.cache (14): cache key -> resolved {path, pkg}
  reader,       \* Resolver.packageCache (15) and Resolver.rootPackage (17)
  calls,        \* the resolve() calls in flight: caller -> call
  firstRet,     \* <<request, parent>> -> the first value resolve returned for it
  resCalls,     \* the number of resolve() calls so far
  fsOps,        \* the number of file system changes so far
  pkgCalls,     \* the readPackage() calls in flight: caller -> call
  syncRet,      \* the last readPackageSync() call and what it returned
  pkgReads,     \* pkgfile -> the number of times readPackage read its content
  pkgSets,      \* pkgfile -> the number of packageCache.set calls for it
  pkgCount,     \* the number of readPackage / readPackageSync calls so far
  aliasCall,    \* the last alias resolution: its arguments and results
  resolving,    \* one resolve() call followed through its loops and recursion
  findCall      \* the last findNodeModulePath call: its arguments and result

distVars == <<options, distCache, lastGen, genCalls>>

assetVars == <<asset, fileContents, pc, queue, trace, lastOut, disk, processCalls>>

pkgVars == <<pkgCalls, syncRet, pkgReads, pkgSets, pkgCount>>

walkVars == <<resolving, findCall>>

resVars ==
  <<fileSystem, cache, reader, calls, firstRet, resCalls, fsOps, pkgVars, aliasCall, walkVars>>

vars == <<distVars, assetVars, resVars>>

(***************************************************************************)
(* Bounds and input sets                                                   *)
(***************************************************************************)
MaxGenCalls == 2

MaxProcessCalls == 2

\* alias tables: none, and a record-form alias with a dist beside a string alias
AliasTable == << <<<< "@", "n" >>, AliasRecord(<< "/", "p", "/", "n", "o", "d", "e", "_", "m", "o", "d", "u", "l", "e", "s", "/", "n", "b" >>, << "p", "a", "g", "e", "s", "/", "a", "c", "/" >>)>>,
                 <<<< "@", "l" >>, AliasString(<< "/", "p", "/", "l" >>)>> >>

AliasConfigs == { << >>, AliasTable }

SourcePaths ==
  { << "/", "p", "/", "s", "/", "a", ".", "e", "s" >>,               \* under sourceDir
    << "/", "p", "/", "s", "/", "x", "/", "n", "p", "m", "/", "b", ".", "j", "s" >>,         \* under sourceDir, with an npm segment
    << "/", "p", "/", "n", "o", "d", "e", "_", "m", "o", "d", "u", "l", "e", "s", "/", "n", "b", "/", "i", ".", "j", "s" >>, \* under the alias @n (with dist)
    << "/", "p", "/", "l", "/", "c", ".", "j", "s" >>,               \* under the alias @l (no dist)
    << "/", "p", "/", "n", "o", "d", "e", "_", "m", "o", "d", "u", "l", "e", "s", "/", "m", "/", "d", ".", "j", "s" >>,  \* a module of node_modules
    << "/", "p", "/", "q", "/", "e", ".", "j", "s" >> }              \* outside sourceDir, aliases and node_modules

DistExts == { << >>, << ".", "j", "s" >>, << ".", "w", "x" >> }

AssetNames == { << "/", "p", "/", "s", "/", "a", ".", "e", "s" >>, << "/", "p", "/", "l", "/", "c", ".", "j", "s" >>, << "/", "p", "/", "q", "/", "e", ".", "j", "s" >> }

FileTexts == { << >>, << "c" >> }

NoMap == [ present |-> FALSE, str |-> << >> ]

\* the values generate() may return, each as the list [].concat(generated) makes of it
GeneratedChoices ==
  { << [ code |-> << >>, ext |-> << >>, map |-> NoMap ] >>,
    << [ code |-> << "c" >>, ext |-> << ".", "j", "s" >>, map |-> [ present |-> TRUE, str |-> << "m" >> ] ] >>,
    << [ code |-> << "c" >>, ext |-> << ".", "j", "s" >>, map |-> NoMap ],
       [ code |-> << "w" >>, ext |-> << ".", "w", "x" >>, map |-> [ present |-> TRUE, str |-> << >> ] ] >> }

NoGen == [ called |-> FALSE, hit |-> FALSE, sourcePath |-> << >>, ext |-> << >>,
           result |-> << >> ]

NoOut == [ called |-> FALSE, ignore |-> TRUE, distPath |-> << >>, target |-> << >>,
           wrote |-> << >>, ensured |-> << >> ]

EmptyMap == << >>

(***************************************************************************)
(* Asset (Resolver.ts 535-954)                                             *)
(***************************************************************************)
\* new Asset(name, options) (557-562) with the field initialisers (537-553)
NewAsset(name) ==
  [ name |-> name,
    basename |-> basename(name),
    relativeName |-> relativeFrom(Cwd, sourceDir, name),
    id |-> << >>,
    contents |-> << >>,
    ast |-> FALSE,
    generated |-> << >>,
    hash |-> << >>,
    distPath |-> << >> ]

\* f with key k set to v
MapSet(f, k, v) == [ x \in DOMAIN f \cup {k} |-> IF x = k THEN v ELSE f[x] ]

\* the distPath output() starts from (848-851): this.distPath, else
\* generateDistPath(this.name, ext), else outDir/relativeName
OutputStart(a, gen) ==
  IF a.distPath # << >> THEN a.distPath
  ELSE IF gen # << >> THEN gen
  ELSE resolveFrom(Cwd, <<outDir, a.relativeName>>)

\* the extension rewrite of output() (854-862); extName is the extension of the
\* source file's base name
OutputReconcile(d0, extName, ext) ==
  IF ext = << >> /\ extname(d0) = << >> THEN d0 \o ext
  ELSE IF extName # ext THEN Replace(d0, extName, ext)
  ELSE d0

\* the distPath output() settles on and stores in this.distPath (848-864)
OutputDistPath(a, c, alias, ext) ==
  OutputReconcile(OutputStart(a, generateDistPath(c, alias, a.name, ext)),
                  extname(a.basename), ext)

\* the module-level cache after output(): generateDistPath runs only when
\* this.distPath is unset (849-850)
OutputCache(a, c, alias, ext) ==
  IF a.distPath # << >> THEN c ELSE CacheAfterGenerate(c, alias, a.name, ext)

\* OutputRecord with the check of prettyDistPath dropped from the write: the
\* file is written whether or not the distPath lies in outDir
OutputRecord_WritesOutside(d, prettyDistPath, item) ==
  [ called |-> TRUE,
    ignore |-> StartsWith(prettyDistPath, DOTDOT),
    distPath |-> prettyDistPath,
    target |-> d,
    wrote |-> << [ path |-> d, code |-> item.code,
                   sourceMap |-> IF item.map.present THEN item.map.str ELSE << >> ] >>,
    ensured |-> << dirname(d) >> ]

\* the rest of output() (866-893) once the distPath d and its prettyDistPath
\* are known; writeFile (956-959) is ensureDir(dirname(filePath)), then fs.writeFile
OutputRecord(d, prettyDistPath, item) ==
  [ called |-> TRUE,
    ignore |-> StartsWith(prettyDistPath, DOTDOT),
    distPath |-> prettyDistPath,
    target |-> d,
    wrote |-> IF ~StartsWith(prettyDistPath, DOTDOT)
                THEN << [ path |-> d, code |-> item.code,
                          sourceMap |-> IF item.map.present THEN item.map.str ELSE << >> ] >>
              ELSE << >>,
    ensured |-> IF ~StartsWith(prettyDistPath, DOTDOT) THEN << dirname(d) >> ELSE << >> ]

OutputWrite(d, item) ==
  OutputRecord(d, promoteRelativePath(relativeFrom(Cwd, outDir, d)), item)

\* Asset.output(code, ext, map) (837-894): the record of one call
OutputCall(a, c, alias, item) == OutputWrite(OutputDistPath(a, c, alias, item.ext), item)

(***************************************************************************)
(* Actions of the Dist-Path Mapper and of the Asset pipeline               *)
(***************************************************************************)
\* a call generateDistPath(sourcePath, ext) by any Asset of the build (the
\* cache is module-level: every Asset reads and writes the same Map)
GenerateDistPath(sourcePath, ext) ==
  /\ genCalls < MaxGenCalls
  /\ genCalls' = genCalls + 1
  /\ lastGen' = [ called |-> TRUE, hit |-> sourcePath \in DOMAIN distCache,
                  sourcePath |-> sourcePath, ext |-> ext,
                  result |-> generateDistPath(distCache, options.alias, sourcePath, ext) ]
  /\ distCache' = CacheAfterGenerate(distCache, options.alias, sourcePath, ext)
  /\ UNCHANGED <<resVars, options, assetVars>>

\* process() up to its first await (688-695)
Process ==
  /\ pc = "idle"
  /\ processCalls < MaxProcessCalls
  /\ processCalls' = processCalls + 1
  /\ asset' = [asset EXCEPT !.id = IF asset.id = << >> THEN asset.relativeName ELSE asset.id]
  /\ trace' = << >>
  /\ pc' = "loadIfNeeded"
  /\ UNCHANGED <<resVars, distVars, fileContents, queue, lastOut, disk>>

\* loadIfNeeded (714-718) on the Asset a: the Asset and the phase log after it
LoadedAsset(a, text) == IF a.contents = << >> THEN [a EXCEPT !.contents = text] ELSE a

LoadedTrace(a, tr) == IF a.contents = << >> THEN Append(tr, "load") ELSE tr

\* await this.loadIfNeeded() (695)
LoadIfNeeded ==
  /\ pc = "loadIfNeeded"
  /\ asset' = LoadedAsset(asset, fileContents)
  /\ trace' = LoadedTrace(asset, trace)
  /\ pc' = "pretransform"
  /\ UNCHANGED <<resVars, distVars, fileContents, queue, lastOut, disk, processCalls>>

\* await this.pretransform() (696)
Pretransform ==
  /\ pc = "pretransform"
  /\ trace' = Append(trace, "pretransform")
  /\ pc' = "getDependencies"
  /\ UNCHANGED <<resVars, distVars, asset, fileContents, queue, lastOut, disk, processCalls>>

\* getDependencies (732-739) on the Asset a once its loadIfNeeded is done:
\* parseIfNeeded and collectDependencies run when there are contents
\* (mightHaveDependencies() is true, 752-754)
ParsedAsset(a) == IF a.contents # << >> THEN [a EXCEPT !.ast = TRUE] ELSE a

\* await this.getDependencies() (697, 732-746)
GetDependencies ==
  /\ pc = "getDependencies"
  /\ asset' = ParsedAsset(LoadedAsset(asset, fileContents))
  /\ trace' = LoadedTrace(asset, Append(trace, "getDependencies"))
  /\ pc' = "transform"
  /\ UNCHANGED <<resVars, distVars, fileContents, queue, lastOut, disk, processCalls>>

\* await this.transform() (698)
Transform ==
  /\ pc = "transform"
  /\ trace' = Append(trace, "transform")
  /\ pc' = "generate"
  /\ UNCHANGED <<resVars, distVars, asset, fileContents, queue, lastOut, disk, processCalls>>

\* this.generated = await this.generate(); [].concat(this.generated) (699-700)
Generate ==
  /\ pc = "generate"
  /\ \E g \in GeneratedChoices :
       /\ asset' = [asset EXCEPT !.generated = g]
       /\ queue' = g
  /\ trace' = Append(trace, "generate")
  /\ pc' = "output"
  /\ UNCHANGED <<resVars, distVars, fileContents, lastOut, disk, processCalls>>

RECURSIVE WriteAll(_, _)
\* the output tree after the writes of one output() call
WriteAll(d, writes) ==
  IF writes = << >> THEN d
  ELSE WriteAll(MapSet(d, writes[1].path,
                       [ code |-> writes[1].code, sourceMap |-> writes[1].sourceMap ]),
                Tail(writes))

\* the state after an output() call that produced the record out
OutputEffects(item, out) ==
  /\ lastOut' = out
  /\ asset' = [asset EXCEPT !.hash = asset.generated, !.distPath = out.target]
  /\ distCache' = OutputCache(asset, distCache, options.alias, item.ext)
  /\ disk' = WriteAll(disk, out.wrote)

\* one round of the for loop of process() (701-709): generateHash, output
Output ==
  /\ pc = "output"
  /\ queue # << >>
  /\ OutputEffects(Head(queue), OutputCall(asset, distCache, options.alias, Head(queue)))
  /\ trace' = Append(trace, "output")
  /\ queue' = Tail(queue)
  /\ pc' = IF Tail(queue) = << >> THEN "done" ELSE "output"
  /\ UNCHANGED <<resVars, options, lastGen, genCalls, fileContents, processCalls>>

\* invalidate() (564-572) before the Asset is processed again; the file may
\* have changed on disk in between
Invalidate ==
  /\ pc = "done"
  /\ asset' = [asset EXCEPT !.contents = << >>, !.ast = FALSE,
                            !.generated = << >>, !.hash = << >>]
  /\ \E text \in FileTexts : fileContents' = text
  /\ pc' = "idle"
  /\ UNCHANGED <<resVars, distVars, queue, trace, lastOut, disk, processCalls>>

(***************************************************************************)
(* package.json: JSON values and the documents of the model                *)
(***************************************************************************)
\* A JSON value as the Resolver tells them apart: absent, a string, an
\* object (a list of <<key, value>> entries in key order) or the literal false
NoVal == [ t |-> "none", s |-> << >>, o |-> << >> ]

Str(s) == [ t |-> "str", s |-> s, o |-> << >> ]

Obj(o) == [ t |-> "obj", s |-> << >>, o |-> o ]

False == [ t |-> "false", s |-> << >>, o |-> << >> ]

\* JavaScript truthiness of a value: a non-empty string or an object
Truthy(v) == (v.t = "str" /\ v.s # << >>) \/ v.t = "obj"

\* no package (undefined)
NoPkg ==
  [ present |-> FALSE, pkgfile |-> << >>, pkgdir |-> << >>, name |-> NoVal,
    source |-> NoVal, main |-> NoVal, module |-> NoVal, browser |-> NoVal,
    alias |-> NoVal ]

\* the object JSON.parse makes of a document with the given fields
Doc(name, source, main, browser, alias) ==
  [ present |-> TRUE, pkgfile |-> << >>, pkgdir |-> << >>, name |-> name,
    source |-> source, main |-> main, module |-> NoVal, browser |-> browser,
    alias |-> alias ]

\* the package.json texts of the model
TextEmpty == << "{", "}" >>

TextMain == << "{", "\"", "m", "a", "i", "n", "\"", ":", "\"", "l", "i", "b", "\"", "}" >>

TextSource == << "{", "\"", "s", "o", "u", "r", "c", "e", "\"", ":", "\"", "l", "i", "b", ".", "j", "s", "\"", "}" >>

TextSourceObj == << "{", "\"", "s", "o", "u", "r", "c", "e", "\"", ":", "{", "\"", ".", "/", "x", ".", "j", "s", "\"", ":", "\"", ".", "/", "y", ".", "j", "s", "\"", "}", "}" >>

TextAliasFalse == << "{", "\"", "a", "l", "i", "a", "s", "\"", ":", "{", "\"", "m", "\"", ":", "f", "a", "l", "s", "e", "}", "}" >>

TextBrowserFalse == << "{", "\"", "b", "r", "o", "w", "s", "e", "r", "\"", ":", "{", "\"", ".", "/", "x", ".", "j", "s", "\"", ":", "f", "a", "l", "s", "e", "}", "}" >>

TextAliasStr == << "{", "\"", "a", "l", "i", "a", "s", "\"", ":", "{", "\"", "k", "\"", ":", "\"", ".", "/", "x", "\"", ",", "\"", "m", "\"", ":", "\"", ".", "/", "y", ".", "j", "s", "\"", "}", "}" >>

\* a main field that names the package directory itself
TextMainSelf == << "{", "\"", "m", "a", "i", "n", "\"", ":", "\"", ".", "/", ".", "\"", "}" >>

TextMalformed == << "{" >>

\* JSON.parse (453, 478) on the texts of the model; ok = FALSE: it throws
JSONParse(text) ==
  CASE text = TextEmpty -> [ ok |-> TRUE, v |-> Doc(NoVal, NoVal, NoVal, NoVal, NoVal) ]
    [] text = TextMain -> [ ok |-> TRUE, v |-> Doc(NoVal, NoVal, Str(<< "l", "i", "b" >>), NoVal, NoVal) ]
    [] text = TextMainSelf ->
         [ ok |-> TRUE, v |-> Doc(NoVal, NoVal, Str(<< ".", "/", "." >>), NoVal, NoVal) ]
    [] text = TextSource ->
         [ ok |-> TRUE, v |-> Doc(NoVal, Str(<< "l", "i", "b", ".", "j", "s" >>), NoVal, NoVal, NoVal) ]
    [] text = TextSourceObj ->
         [ ok |-> TRUE,
           v |-> Doc(NoVal, Obj(<< <<<< ".", "/", "x", ".", "j", "s" >>, Str(<< ".", "/", "y", ".", "j", "s" >>)>> >>), NoVal, NoVal, NoVal) ]
    [] text = TextAliasFalse ->
         [ ok |-> TRUE,
           v |-> Doc(NoVal, NoVal, NoVal, NoVal,
                     Obj(<< <<<< "m" >>, False>> >>)) ]
    [] text = TextBrowserFalse ->
         [ ok |-> TRUE,
           v |-> Doc(NoVal, NoVal, NoVal, Obj(<< <<<< ".", "/", "x", ".", "j", "s" >>, False>> >>), NoVal) ]
    [] text = TextAliasStr ->
         [ ok |-> TRUE,
           v |-> Doc(NoVal, NoVal, NoVal, NoVal,
                     Obj(<< <<<< "k" >>, Str(<< ".", "/", "x" >>)>>, <<<< "m" >>, Str(<< ".", "/", "y", ".", "j", "s" >>)>> >>)) ]
    [] OTHER -> [ ok |-> FALSE, v |-> NoPkg ]

RECURSIVE Lookup(_, _)
\* aliases[key] of an object: the value of the entry, NoVal (undefined) when
\* there is none
Lookup(o, key) ==
  IF o = << >> THEN NoVal
  ELSE IF o[1][1] = key THEN o[1][2]
  ELSE Lookup(Tail(o), key)

(***************************************************************************)
(* The file system and the Package Reader (Resolver.ts 418-494)            *)
(***************************************************************************)
\* A file system fs is a record: files and fifos (sets of paths), dirs (the
\* directories that exist beside the ancestors of the files), pkgText (the
\* text of each package.json that exists) and links (the package.json files
\* reached through a symbolic link).
AllFiles(fs) == fs.files \cup fs.fifos \cup DOMAIN fs.pkgText

\* stat(file) succeeds and isFile() || isFIFO() (209-216)
isFile(fs, file) == file \in AllFiles(fs)

\* stat(dir) succeeds and isDirectory() (128-129)
isDirectory(fs, dir) ==
  \/ dir \in fs.dirs
  \/ \E f \in AllFiles(fs) \cup fs.dirs : StartsWith(f, dir \o SEP)

\* fsExtra.existsSync (274)
existsSync(fs, p) == isFile(fs, p) \/ isDirectory(fs, p)

\* fs.realpath(file) (461): the path behind the link when there is one
realpath(fs, file) == IF file \in fs.links THEN << "/", "r" >> \o file ELSE file

\* The reader state r of a Resolver: pcache is this.packageCache (15), root is
\* this.rootPackage (17).  The operations that read packages return their
\* value v together with the reader state r they leave.
NewReader == [ pcache |-> << >>, root |-> NoPkg ]

\* pkg.pkgfile = file; pkg.pkgdir = dir (455-456, 480-481)
PackageFields(file, dir, doc) == [ doc EXCEPT !.pkgfile = file, !.pkgdir = dir ]

\* the symlink test of readPackage (460-465)
StripSource(fs, file, pkg) ==
  [ pkg EXCEPT !.source = IF Truthy(@) /\ realpath(fs, file) = file THEN NoVal ELSE @ ]

\* the symlink test as readPackageSync makes it (485-490): its "realpath" is
\* the text of the file, read a second time
StripSourceSync(fs, file, pkg) ==
  [ pkg EXCEPT !.source = IF Truthy(@) /\ fs.pkgText[file] = file THEN NoVal ELSE @ ]

\* readPackage and readPackageSync on a cache miss, once the file was read
\* and parsed (453-468, 478-493); sync: it is readPackageSync
ReadPackageMiss(fs, r, file, dir, parsed, sync) ==
  IF parsed.ok
    THEN With(IF sync THEN StripSourceSync(fs, file, PackageFields(file, dir, parsed.v))
              ELSE StripSource(fs, file, PackageFields(file, dir, parsed.v)),
              LAMBDA pkg : [ ok |-> TRUE, v |-> pkg,
                             r |-> [ r EXCEPT !.pcache = MapSet(@, file, pkg) ] ])
  ELSE [ ok |-> FALSE, v |-> NoPkg, r |-> r ]

\* the body of readPackage and readPackageSync for the package file (448-468,
\* 473-493), run without another call in between; ok = FALSE: it throws (no
\* such file, or malformed JSON)
ReadPackageFile(fs, r, file, dir, sync) ==
  IF file \in DOMAIN r.pcache THEN [ ok |-> TRUE, v |-> r.pcache[file], r |-> r ]
  ELSE IF file \notin DOMAIN fs.pkgText THEN [ ok |-> FALSE, v |-> NoPkg, r |-> r ]
  ELSE ReadPackageMiss(fs, r, file, dir, JSONParse(fs.pkgText[file]), sync)

\* readPackage(dir) (446-469)
readPackage(fs, r, dir) == ReadPackageFile(fs, r, join(<<dir, PACKAGE_JSON>>), dir, FALSE)

\* readPackageSync(dir) (471-494)
readPackageSync(fs, r, dir) == ReadPackageFile(fs, r, join(<<dir, PACKAGE_JSON>>), dir, TRUE)

RECURSIVE FindPackageLoop(_, _, _, _)
\* the while loop of findPackage (421-429)
FindPackageLoop(fs, r, dir, root) ==
  IF dir = root \/ basename(dir) = NODE_MODULES THEN [ v |-> NoPkg, r |-> r ]
  ELSE With(readPackage(fs, r, dir),
            LAMBDA read : IF read.ok THEN [ v |-> read.v, r |-> read.r ]
                          ELSE FindPackageLoop(fs, read.r, dirname(dir), root))

\* findPackage(dir) (418-430)
findPackage(fs, r, dir) == FindPackageLoop(fs, r, dir, parseRoot(dir))

(***************************************************************************)
(* File names and aliases (Resolver.ts 270-416, 496-504)                   *)
(***************************************************************************)
\* getModuleParts(name) (496-504); a lone '@scope' part is merged with the
\* missing second part, which the template string prints as 'undefined'
getModuleParts(name) ==
  With(Split(normalize(name)),
       LAMBDA parts :
         IF StartsWith(parts[1], << "@" >>)
           THEN IF Len(parts) >= 2
                  THEN << parts[1] \o SEP \o parts[2] >> \o SubSeq(parts, 3, Len(parts))
                ELSE << parts[1] \o << "/", "u", "n", "d", "e", "f", "i", "n", "e", "d" >> >>
         ELSE parts)

\* the '~' walk of resolveFilename stops at dir (283-286)
TildeStop(dir) == dir = rootDir \/ basename(dirname(dir)) = NODE_MODULES

RECURSIVE TildeDir(_)
\* the directory the '~' case of resolveFilename walks up to (283-288), for a
\* dir from which the walk reaches rootDir or a module directory
TildeDir(dir) == IF TildeStop(dir) THEN dir ELSE TildeDir(dirname(dir))

\* resolveFilename(fileName, dir) (270-304)
resolveFilename(fs, fileName, dir) ==
  IF StartsWith(fileName, << "/" >>)
    THEN IF existsSync(fs, fileName) THEN fileName
         ELSE resolveFrom(Cwd, <<sourceDir, Slice1(fileName)>>)
  ELSE IF StartsWith(fileName, << "~" >>)
    THEN join(<<TildeDir(dir), Slice1(fileName)>>)
  ELSE IF StartsWith(fileName, << "." >>)
    THEN resolveFrom(Cwd, <<dir, fileName>>)
  ELSE normalize(fileName)

\* lookupAlias(aliases, fileName, dir) (407-416)
lookupAlias(fs, aliases, fileName, dir) ==
  With(Lookup(aliases.o, fileName),
       LAMBDA alias : IF alias.t = "str" THEN Str(resolveFilename(fs, alias.s, dir))
                      ELSE alias)

\* the file name getAlias looks up for an absolute one (379-382)
AliasRelative(rel) == IF StartsWith(rel, DOT) THEN rel ELSE << ".", "/" >> \o rel

\* the alias getAlias finds for a module name (387-396)
ModuleAlias(fs, fileName, dir, aliases, parts) ==
  IF lookupAlias(fs, aliases, fileName, dir).t # "none"
    THEN lookupAlias(fs, aliases, fileName, dir)
  ELSE With(lookupAlias(fs, aliases, parts[1], dir),
            LAMBDA alias : IF alias.t = "str" THEN Str(join(<<alias.s>> \o Tail(parts)))
                           ELSE alias)

\* getAlias(fileName, dir, aliases) (370-405); NoVal: null or undefined
getAlias(fs, fileName, dir, aliases) ==
  IF fileName = << >> \/ aliases.t # "obj" THEN NoVal
  ELSE With(IF isAbsolute(fileName)
              THEN lookupAlias(fs, aliases,
                               AliasRelative(relativeFrom(Cwd, dir, fileName)), dir)
            ELSE ModuleAlias(fs, fileName, dir, aliases, getModuleParts(fileName)),
            LAMBDA alias : IF alias.t = "false" THEN Str(<< >>) ELSE alias)

\* options.target is not set in the builds of the model
OptionsTarget == << >>

\* getBrowserField(pkg) (365-368)
getBrowserField(pkg) ==
  IF (IF OptionsTarget # << >> THEN OptionsTarget ELSE << "b", "r", "o", "w", "s", "e", "r" >>) = << "b", "r", "o", "w", "s", "e", "r" >>
    THEN pkg.browser
  ELSE NoVal

\* a || b of two getAlias results
OrElse(a, b) == IF Truthy(a) THEN a ELSE b

\* resolvePackageAliases(fileName, pkg) (351-363)
resolvePackageAliases(fs, fileName, pkg) ==
  IF ~pkg.present THEN fileName
  ELSE OrElse(getAlias(fs, fileName, pkg.pkgdir, pkg.source),
         OrElse(getAlias(fs, fileName, pkg.pkgdir, pkg.alias),
           OrElse(getAlias(fs, fileName, pkg.pkgdir, getBrowserField(pkg)),
                  Str(fileName)))).s

\* resolveAliases(fileName, pkg) (343-349), rootPackage being root
resolveAliases(fs, root, fileName, pkg) ==
  resolvePackageAliases(fs, resolvePackageAliases(fs, fileName, pkg), root)

RECURSIVE loadResolveAliasFrom(_, _)
\* the for loop of loadResolveAlias (328-339) over the alias entries left;
\* << >>: undefined
loadResolveAliasFrom(aliasEntries, fileName) ==
  IF aliasEntries = << >> THEN << >>
  ELSE IF Includes(fileName, aliasEntries[1][1])
    THEN Replace(fileName, aliasEntries[1][1], normalizeAlias(aliasEntries[1][2]).path)
  ELSE loadResolveAliasFrom(Tail(aliasEntries), fileName)

\* loadResolveAlias(fileName) (326-341), called without dir
loadResolveAlias(alias, fileName) == loadResolveAliasFrom(alias, pathToUnixType(fileName))

\* the reader state after the rootPackage test of loadAlias (308-310)
WithRoot(fs, r) ==
  IF r.root.present THEN r
  ELSE With(findPackage(fs, r, rootDir), LAMBDA found : [ found.r EXCEPT !.root = found.v ])

\* the return of loadAlias (314-316), found being findPackage(dir)
LoadAliasResult(fs, alias, fileName, found) ==
  [ v |-> IF loadResolveAlias(alias, fileName) # << >>
            THEN loadResolveAlias(alias, fileName)
          ELSE resolveAliases(fs, found.r.root, fileName, found.v),
    r |-> found.r ]

\* loadAlias(fileName, dir) (306-317)
loadAlias(fs, r, alias, fileName, dir) ==
  LoadAliasResult(fs, alias, fileName, findPackage(fs, WithRoot(fs, r), dir))

(***************************************************************************)
(* Resolution (Resolver.ts 31-268)                                         *)
(***************************************************************************)
\* no result (undefined)
NotFound(r) == [ found |-> FALSE, path |-> << >>, pkg |-> NoPkg, r |-> r ]

\* expandFile(file, extensions, pkg, false) (154-165)
ExpandPlain(file, extensions) == [ i \in 1..Len(extensions) |-> file \o extensions[i] ]

RECURSIVE ExpandFrom(_, _, _, _, _, _)
\* the for loop of expandFile (154-165) from the i-th extension on
ExpandFrom(fs, root, file, extensions, pkg, i) ==
  IF i > Len(extensions) THEN << >>
  ELSE With(resolveAliases(fs, root, file \o extensions[i], pkg),
            LAMBDA alias : IF alias # file \o extensions[i]
                             THEN ExpandPlain(alias, extensions)
                           ELSE << >>)
       \o << file \o extensions[i] >>
       \o ExpandFrom(fs, root, file, extensions, pkg, i + 1)

\* expandFile(file, extensions, pkg) (146-168)
expandFile(fs, root, file, extensions, pkg) == ExpandFrom(fs, root, file, extensions, pkg, 1)

\* loadAsFile without the isFile test: the first candidate is taken as found
FirstFile_NoStat(fs, candidates) ==
  IF candidates = << >> THEN << >> ELSE candidates[1]

RECURSIVE FirstFile(_, _)
\* the first candidate that isFile, << >> when none (172-176)
FirstFile(fs, candidates) ==
  IF candidates = << >> THEN << >>
  ELSE IF isFile(fs, candidates[1]) THEN candidates[1]
  ELSE FirstFile(fs, Tail(candidates))

\* loadAsFile(file, extensions, pkg) (170-177)
loadAsFile(fs, r, file, extensions, pkg) ==
  With(FirstFile(fs, expandFile(fs, r.root, file, extensions, pkg)),
       LAMBDA f : IF f = << >> THEN NotFound(r)
                  ELSE [ found |-> TRUE, path |-> f, pkg |-> pkg, r |-> r ])

\* the key browser[pkg.name] looks up (220)
NameKey(pkg) == IF pkg.name.t = "str" THEN pkg.name.s ELSE << "u", "n", "d", "e", "f", "i", "n", "e", "d" >>

\* the browser entry of getPackageEntries (219-222)
BrowserEntry(pkg, browser) ==
  IF browser.t = "obj" /\ Truthy(Lookup(browser.o, NameKey(pkg)))
    THEN Lookup(browser.o, NameKey(pkg))
  ELSE browser

\* the entry point of one main field (229-236)
EntryPath(pkg, main) ==
  resolveFrom(Cwd, << pkg.pkgdir,
                      IF main = << >> \/ main = << "." >> \/ main = << ".", "/" >> THEN INDEX ELSE main >>)

\* getPackageEntries(pkg) (218-237)
getPackageEntries(pkg) ==
  With(SelectSeq(<< pkg.source, BrowserEntry(pkg, getBrowserField(pkg)), pkg.main,
                    pkg.module >>, LAMBDA e : e.t = "str"),
       LAMBDA mains : [ i \in 1..Len(mains) |-> EntryPath(pkg, mains[i].s) ])

\* a || b of two load results: b is run from the reader state a left
OrLoad(a, B(_)) == IF a.found THEN a ELSE B(a.r)

RECURSIVE loadDirectory(_, _, _, _, _)
RECURSIVE LoadEntries(_, _, _, _, _)
\* the for loop over the entries of loadDirectory (253-261)
LoadEntries(fs, r, entries, extensions, pkg) ==
  IF entries = << >> THEN NotFound(r)
  ELSE OrLoad(OrLoad(loadAsFile(fs, r, entries[1], extensions, pkg),
                     LAMBDA r1 : loadDirectory(fs, r1, entries[1], extensions, pkg)),
              LAMBDA r2 : LoadEntries(fs, r2, Tail(entries), extensions, pkg))

\* loadDirectory(dir, extensions, pkg) (239-268): when readPackage throws,
\* the catch (262) leaves pkg as it was passed
loadDirectory(fs, r, dir, extensions, pkg) ==
  With(readPackage(fs, r, dir),
       LAMBDA read :
         IF read.ok
           THEN OrLoad(LoadEntries(fs, read.r, getPackageEntries(read.v), extensions, read.v),
                       LAMBDA r1 : loadAsFile(fs, r1, join(<<dir, INDEX>>), extensions, read.v))
         ELSE loadAsFile(fs, read.r, join(<<dir, INDEX>>), extensions, pkg))

\* loadRelative(filename, extensions) (179-188)
loadRelative(fs, r, filename, extensions) ==
  With(findPackage(fs, r, dirname(filename)),
       LAMBDA found :
         OrLoad(loadAsFile(fs, found.r, filename, extensions, found.v),
                LAMBDA r1 : loadDirectory(fs, r1, filename, extensions, found.v)))

\* a module as resolveModule returns it; << >>: the field is absent
Module(moduleName, subPath, moduleDir, filePath) ==
  [ moduleName |-> moduleName, subPath |-> subPath, moduleDir |-> moduleDir,
    filePath |-> filePath ]

NoModule == Module(<< >>, << >>, << >>, << >>)

\* parts[1] of getModuleParts, << >> (undefined) when there is none
SubPath(parts) == IF Len(parts) >= 2 THEN parts[2] ELSE << >>

\* the directory findNodeModulePath probes from dir (121-123)
SkipNodeModules(dir) == IF basename(dir) = NODE_MODULES THEN dirname(dir) ELSE dir

RECURSIVE FindNodeModuleLoop(_, _, _, _)
\* the while loop of findNodeModulePath (119-143); NoModule: undefined
FindNodeModuleLoop(fs, filename, dir, root) ==
  IF dir = root THEN NoModule
  ELSE IF isDirectory(fs, join(<<SkipNodeModules(dir), NODE_MODULES,
                                 getModuleParts(filename)[1]>>))
    THEN Module(getModuleParts(filename)[1], SubPath(getModuleParts(filename)),
                join(<<SkipNodeModules(dir), NODE_MODULES, getModuleParts(filename)[1]>>),
                join(<<SkipNodeModules(dir), NODE_MODULES, filename>>))
  ELSE FindNodeModuleLoop(fs, filename, dirname(SkipNodeModules(dir)), root)

\* findNodeModulePath(filename, dir) (115-144)
findNodeModulePath(fs, filename, dir) ==
  FindNodeModuleLoop(fs, filename, dir, parseRoot(dir))

\* loadNodeModules with a sub-path (194-200); when readPackage throws, the
\* catch (204) gives no result
LoadModuleSub(fs, r, module, extensions) ==
  With(readPackage(fs, r, module.moduleDir),
       LAMBDA read :
         IF read.ok
           THEN OrLoad(loadAsFile(fs, read.r, module.filePath, extensions, read.v),
                       LAMBDA r1 : loadDirectory(fs, r1, module.filePath, extensions, NoPkg))
         ELSE NotFound(read.r))

\* loadNodeModules(module, extensions) (190-207)
loadNodeModules(fs, r, module, extensions) ==
  IF module.subPath # << >>
    THEN LoadModuleSub(fs, r, module, extensions)
  ELSE loadDirectory(fs, r, module.filePath, extensions, NoPkg)

\* the directory resolve and resolveModule start from (49, 76)
ParentDir(parent, otherwise) == IF parent # << >> THEN dirname(parent) ELSE otherwise

\* resolveModule (83-112) once resolveFilename gave fileName; parent << >>:
\* the entry point
ModuleOf(fs, r, alias, fileName, parent) ==
  With(loadAlias(fs, r, alias, fileName, ParentDir(parent, sourceDir)),
       LAMBDA aliased :
         [ v |-> IF isAbsolute(aliased.v) THEN Module(<< >>, << >>, << >>, aliased.v)
                 ELSE IF findNodeModulePath(fs, aliased.v, ParentDir(parent, sourceDir))
                           # NoModule
                   THEN findNodeModulePath(fs, aliased.v, ParentDir(parent, sourceDir))
                 ELSE Module(getModuleParts(aliased.v)[1],
                             SubPath(getModuleParts(aliased.v)), << >>, << >>),
           r |-> aliased.r ])

\* resolveModule(fileName, parent) (75-113)
resolveModule(fs, r, alias, fileName, parent) ==
  ModuleOf(fs, r, alias,
           IF parent # << >>
             THEN resolveFilename(fs, fileName, ParentDir(parent, sourceDir))
           ELSE fileName,
           parent)

\* options.extensions
Extensions == << << ".", "j", "s" >>, << ".", "t", "s" >> >>

\* the extensions resolve probes (38-45)
ProbeExts(parent) ==
  << << >> >> \o
  (IF parent # << >>
     THEN << extname(parent) >> \o SelectSeq(Extensions, LAMBDA e : e # extname(parent))
   ELSE Extensions)

\* getCacheKey(fileName, parent) (71-73)
getCacheKey(fileName, parent) == ParentDir(parent, << >>) \o << ":" >> \o fileName

\* the body of resolve(fileName, parent) after the cache miss (38-68), run on
\* the file system fs from the reader state r; found = FALSE: it throws
\* 'Cannot find module'
ResolveMiss(fs, r, alias, fileName, parent) ==
  With(resolveModule(fs, r, alias, fileName, parent),
       LAMBDA module :
         IF module.v.moduleDir # << >>
           THEN loadNodeModules(fs, module.r, module.v, ProbeExts(parent))
         ELSE IF module.v.filePath # << >>
           THEN loadRelative(fs, module.r, module.v.filePath, ProbeExts(parent))
         ELSE IF parent # << >>
           THEN loadRelative(fs, module.r,
                             resolveFrom(Cwd, <<ParentDir(parent, Cwd), fileName>>),
                             ProbeExts(parent))
         ELSE NotFound(module.r))

(***************************************************************************)
(* One Resolver shared by concurrent resolve() calls                       *)
(***************************************************************************)
MaxResolveCalls == 3

MaxFsOps == 1

\* the callers that share the Resolver
Callers == { 1, 2 }

\* the resolve(request, parent) calls of the model; parent << >>: the entry
\* point (no parent)
ResolveArgs ==
  { << << ".", "/", "x" >>, << "/", "p", "/", "s", "/", "a", ".", "t", "s" >> >>, << << ".", "/", "x" >>, << "/", "p", "/", "s", "/", "b", ".", "j", "s" >> >>, << << ".", "/", "x" >>, << >> >>,
    << << "m" >>, << "/", "p", "/", "s", "/", "a", ".", "t", "s" >> >>, << << "m" >>, << >> >>, << << "m", "/", "l", "i", "b" >>, << "/", "p", "/", "s", "/", "b", ".", "j", "s" >> >> }

\* the files created and removed between calls
ChangingFiles == { << "/", "p", "/", "s", "/", "x", ".", "t", "s" >>, << "/", "p", "/", "s", "/", "x", ".", "j", "s" >>, << "/", "p", "/", "n", "o", "d", "e", "_", "m", "o", "d", "u", "l", "e", "s", "/", "m", "/", "l", "i", "b", ".", "j", "s" >> }

\* a file system from its files and package.json texts
FileSystem(files, fifos, pkgText) ==
  [ files |-> files, fifos |-> fifos, dirs |-> { sourceDir }, pkgText |-> pkgText,
    links |-> {} ]

ModulePackage == << "/", "p", "/", "n", "o", "d", "e", "_", "m", "o", "d", "u", "l", "e", "s", "/", "m", "/", "p", "a", "c", "k", "a", "g", "e", ".", "j", "s", "o", "n" >>

FileSystems ==
  { FileSystem({ << "/", "p", "/", "s", "/", "x", ".", "t", "s" >>, << "/", "p", "/", "s", "/", "x", ".", "j", "s" >> }, {}, << >>),
    FileSystem({ << "/", "p", "/", "s", "/", "x", ".", "j", "s" >>, << "/", "p", "/", "n", "o", "d", "e", "_", "m", "o", "d", "u", "l", "e", "s", "/", "m", "/", "l", "i", "b", ".", "j", "s" >> }, {},
               ModulePackage :> TextMain),
    FileSystem({ << "/", "p", "/", "n", "o", "d", "e", "_", "m", "o", "d", "u", "l", "e", "s", "/", "m", "/", "i", "n", "d", "e", "x", ".", "j", "s" >> }, { << "/", "p", "/", "s", "/", "x", ".", "t", "s" >> },
               ModulePackage :> TextMalformed) }

NoResult == [ path |-> << >>, pkg |-> NoPkg ]

\* a caller with no call in flight
IdleCall ==
  [ pc |-> "idle", request |-> << >>, parent |-> << >>, hit |-> FALSE,
    result |-> NoResult, existed |-> FALSE ]

\* the value resolve returns (67-68) for what the load functions found
Resolved(res) == [ path |-> res.path, pkg |-> res.pkg ]

\* firstRet with the value returned for (request, parent), unless one is there
Returned(request, parent, result) ==
  IF <<request, parent>> \in DOMAIN firstRet THEN firstRet
  ELSE MapSet(firstRet, <<request, parent>>, result)

\* a caller calls resolve(request, parent) (31-36): on a cache hit it returns
\* the cached value at once, on a miss the call goes on to its first await
Resolve(c, request, parent) ==
  /\ calls[c].pc # "computing"
  /\ resCalls < MaxResolveCalls
  /\ resCalls' = resCalls + 1
  /\ IF getCacheKey(request, parent) \in DOMAIN cache
       THEN /\ calls' = [ calls EXCEPT ![c] =
                   [ pc |-> "returned", request |-> request, parent |-> parent,
                     hit |-> TRUE, result |-> cache[getCacheKey(request, parent)],
                     existed |-> isFile(fileSystem,
                                        cache[getCacheKey(request, parent)].path) ] ]
            /\ firstRet' = Returned(request, parent, cache[getCacheKey(request, parent)])
       ELSE /\ calls' = [ calls EXCEPT ![c] =
                   [ IdleCall EXCEPT !.pc = "computing", !.request = request,
                                     !.parent = parent ] ]
            /\ UNCHANGED firstRet
  /\ UNCHANGED <<distVars, assetVars, fileSystem, cache, reader, fsOps, pkgVars, aliasCall, walkVars>>

\* the call of caller c after its awaits (38-68), res being what it found: it
\* throws, or sets the cache entry and returns
ResolveEnd(c, res) ==
  /\ reader' = res.r
  /\ IF res.found
       THEN /\ cache' = MapSet(cache, getCacheKey(calls[c].request, calls[c].parent),
                               Resolved(res))
            /\ calls' = [ calls EXCEPT ![c].pc = "returned", ![c].result = Resolved(res),
                                       ![c].existed = isFile(fileSystem, res.path) ]
            /\ firstRet' = Returned(calls[c].request, calls[c].parent, Resolved(res))
       ELSE /\ calls' = [ calls EXCEPT ![c].pc = "thrown" ]
            /\ UNCHANGED <<cache, firstRet>>

\* a call in flight runs to its end
ResolveFinish(c) ==
  /\ calls[c].pc = "computing"
  /\ ResolveEnd(c, ResolveMiss(fileSystem, reader, options.alias,
                               calls[c].request, calls[c].parent))
  /\ UNCHANGED <<distVars, assetVars, fileSystem, resCalls, fsOps, pkgVars, aliasCall, walkVars>>

\* between calls a file is created
CreateFile(f) ==
  /\ \A c \in Callers : calls[c].pc # "computing"
  /\ fsOps < MaxFsOps
  /\ f \notin fileSystem.files \cup fileSystem.fifos
  /\ fileSystem' = [ fileSystem EXCEPT !.files = @ \cup { f } ]
  /\ fsOps' = fsOps + 1
  /\ UNCHANGED <<distVars, assetVars, cache, reader, calls, firstRet, resCalls, pkgVars, aliasCall, walkVars>>

\* between calls a file is removed
RemoveFile(f) ==
  /\ \A c \in Callers : calls[c].pc # "computing"
  /\ fsOps < MaxFsOps
  /\ f \in fileSystem.files \cup fileSystem.fifos
  /\ fileSystem' = [ fileSystem EXCEPT !.files = @ \ { f }, !.fifos = @ \ { f } ]
  /\ fsOps' = fsOps + 1
  /\ UNCHANGED <<distVars, assetVars, cache, reader, calls, firstRet, resCalls, pkgVars, aliasCall, walkVars>>

\* a caller with no readPackage call in flight
IdlePkgCall == [ pc |-> "idle", dir |-> << >>, pkg |-> NoPkg ]

NoSyncRet == [ called |-> FALSE, dir |-> << >>, ok |-> FALSE, pkg |-> NoPkg ]

NoAliasCall ==
  [ called |-> FALSE, fileName |-> << >>, pkg |-> NoPkg, root |-> NoPkg,
    alias |-> << NoVal, NoVal, NoVal >>, packageAliases |-> << >>, aliases |-> << >>, loaded |-> << >> ]

\* no resolve call followed step by step
IdleResolving ==
  [ pc |-> "idle", request |-> << >>, parent |-> << >>, dir |-> << >>,
    fileName |-> << >>, stack |-> << >>, pending |-> << >>, ppkg |-> NoPkg,
    hit |-> FALSE, result |-> NoResult ]

NoFindCall == [ called |-> FALSE, filename |-> << >>, dir |-> << >>, module |-> NoModule ]

InitWalkVars ==
  /\ resolving = IdleResolving
  /\ findCall = NoFindCall

\* no readPackage call made yet
InitPkgCalls ==
  /\ pkgCalls = [ c \in Callers |-> IdlePkgCall ]
  /\ syncRet = NoSyncRet
  /\ pkgReads = EmptyMap
  /\ pkgSets = EmptyMap
  /\ pkgCount = 0

\* no resolve call made yet
InitResCalls ==
  /\ cache = EmptyMap
  /\ calls = [ c \in Callers |-> IdleCall ]
  /\ firstRet = EmptyMap
  /\ resCalls = 0
  /\ fsOps = 0

InitResVars ==
  /\ fileSystem \in FileSystems
  /\ reader = NewReader
  /\ InitResCalls
  /\ InitPkgCalls
  /\ aliasCall = NoAliasCall
  /\ InitWalkVars

\* the variables of the Dist-Path Mapper and the Asset, which resolve leaves alone
InitUnusedAsset ==
  /\ distCache = EmptyMap
  /\ lastGen = NoGen
  /\ genCalls = 0
  /\ asset = NewAsset(<< "/", "p", "/", "s", "/", "a", ".", "e", "s" >>)
  /\ fileContents = << >>
  /\ pc = "unused"
  /\ queue = << >>
  /\ trace = << >>
  /\ lastOut = NoOut
  /\ disk = EmptyMap
  /\ processCalls = 0

\* the Resolver variables where no Resolver is used
InitUnusedResolver ==
  /\ fileSystem = FileSystem({}, {}, << >>)
  /\ reader = NewReader
  /\ InitResCalls
  /\ InitPkgCalls
  /\ aliasCall = NoAliasCall
  /\ InitWalkVars

InitRes ==
  /\ options = [ alias |-> << >> ]
  /\ InitUnusedAsset
  /\ InitResVars

NextRes ==
  \/ \E c \in Callers, args \in ResolveArgs : Resolve(c, args[1], args[2])
  \/ \E c \in Callers : ResolveFinish(c)
  \/ \E f \in ChangingFiles : CreateFile(f)
  \/ \E f \in ChangingFiles : RemoveFile(f)

SpecRes == InitRes /\ [][NextRes]_vars

(***************************************************************************)
(* The Package Reader under concurrent readPackage() calls                 *)
(***************************************************************************)
MaxPkgCalls == 3

\* the directories whose package.json is read
PkgDirs == { << "/", "p" >>, << "/", "p", "/", "n", "o", "d", "e", "_", "m", "o", "d", "u", "l", "e", "s", "/", "m" >> }

PkgFiles == { join(<<dir, PACKAGE_JSON>>) : dir \in PkgDirs }

\* the texts a package.json of the model may hold
PkgTexts == { TextSource, TextSourceObj, TextMain }

\* the file systems of the Package Reader: any of the package.json files may
\* be missing, and any that exists may be reached through a symbolic link
PkgFileSystems ==
  { [ files |-> {}, fifos |-> {}, dirs |-> PkgDirs, pkgText |-> t, links |-> l ] :
      t \in UNION { [ d -> PkgTexts ] : d \in SUBSET PkgFiles },
      l \in SUBSET PkgFiles }

\* m[k] + 1, counting from 0
Counted(m, k) == MapSet(m, k, IF k \in DOMAIN m THEN m[k] + 1 ELSE 1)

\* the package.json file of the call of caller c (447)
CallFile(c) == join(<<pkgCalls[c].dir, PACKAGE_JSON>>)

\* this.packageCache.set(file, pkg); return pkg (467-468)
CacheSetReturn(c, pkg) ==
  /\ reader' = [ reader EXCEPT !.pcache = MapSet(@, CallFile(c), pkg) ]
  /\ pkgSets' = Counted(pkgSets, CallFile(c))
  /\ pkgCalls' = [ pkgCalls EXCEPT ![c].pc = "returned", ![c].pkg = pkg ]

\* a caller calls readPackage(dir) (446-452): a cached record is returned at
\* once, otherwise the call awaits fs.readFile
ReadPackage(c, dir) ==
  /\ pkgCalls[c].pc \in { "idle", "returned", "thrown" }
  /\ pkgCount < MaxPkgCalls
  /\ pkgCount' = pkgCount + 1
  /\ pkgCalls' = [ pkgCalls EXCEPT ![c] =
       IF join(<<dir, PACKAGE_JSON>>) \in DOMAIN reader.pcache
         THEN [ pc |-> "returned", dir |-> dir,
                pkg |-> reader.pcache[join(<<dir, PACKAGE_JSON>>)] ]
       ELSE [ pc |-> "readFile", dir |-> dir, pkg |-> NoPkg ] ]
  /\ UNCHANGED <<distVars, assetVars, fileSystem, cache, reader, calls, firstRet,
                 resCalls, fsOps, syncRet, pkgReads, pkgSets, aliasCall, walkVars>>

\* readPackage after fs.readFile gave text (453-468): JSON.parse throws, or
\* the call awaits fs.realpath for a package with a source field, or it sets
\* the cache entry and returns
ReadFileParsed(c, parsed) ==
  IF ~parsed.ok
    THEN /\ pkgCalls' = [ pkgCalls EXCEPT ![c].pc = "thrown" ]
         /\ UNCHANGED <<reader, pkgSets>>
  ELSE IF Truthy(parsed.v.source)
    THEN /\ pkgCalls' = [ pkgCalls EXCEPT ![c].pc = "realpath",
                            ![c].pkg = PackageFields(CallFile(c), pkgCalls[c].dir, parsed.v) ]
         /\ UNCHANGED <<reader, pkgSets>>
  ELSE CacheSetReturn(c, PackageFields(CallFile(c), pkgCalls[c].dir, parsed.v))

\* fs.readFile of caller c completes (452): it fails when there is no such
\* file, otherwise the content is read
ReadFileDone(c) ==
  /\ pkgCalls[c].pc = "readFile"
  /\ IF CallFile(c) \notin DOMAIN fileSystem.pkgText
       THEN /\ pkgCalls' = [ pkgCalls EXCEPT ![c].pc = "thrown" ]
            /\ UNCHANGED <<reader, pkgSets, pkgReads>>
       ELSE /\ pkgReads' = Counted(pkgReads, CallFile(c))
            /\ ReadFileParsed(c, JSONParse(fileSystem.pkgText[CallFile(c)]))
  /\ UNCHANGED <<distVars, assetVars, fileSystem, cache, calls, firstRet, resCalls,
                 fsOps, syncRet, pkgCount, aliasCall, walkVars>>

\* fs.realpath of caller c completes (461-468)
RealpathDone(c) ==
  /\ pkgCalls[c].pc = "realpath"
  /\ CacheSetReturn(c, StripSource(fileSystem, CallFile(c), pkgCalls[c].pkg))
  /\ UNCHANGED <<distVars, assetVars, fileSystem, cache, calls, firstRet, resCalls,
                 fsOps, syncRet, pkgReads, pkgCount, aliasCall, walkVars>>

\* readPackageSync(dir) (471-494), which runs without suspension
ReadPackageSync(dir) ==
  /\ pkgCount < MaxPkgCalls
  /\ pkgCount' = pkgCount + 1
  /\ reader' = readPackageSync(fileSystem, reader, dir).r
  /\ syncRet' = [ called |-> TRUE, dir |-> dir,
                  ok |-> readPackageSync(fileSystem, reader, dir).ok,
                  pkg |-> readPackageSync(fileSystem, reader, dir).v ]
  /\ pkgSets' = IF reader' # reader THEN Counted(pkgSets, join(<<dir, PACKAGE_JSON>>))
                ELSE pkgSets
  /\ UNCHANGED <<distVars, assetVars, fileSystem, cache, calls, firstRet, resCalls,
                 fsOps, pkgCalls, pkgReads, aliasCall, walkVars>>

InitPkg ==
  /\ options = [ alias |-> << >> ]
  /\ InitUnusedAsset
  /\ fileSystem \in PkgFileSystems
  /\ reader = NewReader
  /\ InitResCalls
  /\ InitPkgCalls
  /\ aliasCall = NoAliasCall
  /\ InitWalkVars

NextPkg ==
  \/ \E c \in Callers, dir \in PkgDirs : ReadPackage(c, dir)
  \/ \E c \in Callers : ReadFileDone(c)
  \/ \E c \in Callers : RealpathDone(c)
  \/ \E dir \in PkgDirs : ReadPackageSync(dir)

SpecPkg == InitPkg /\ [][NextPkg]_vars

(***************************************************************************)
(* Alias resolution on its inputs                                          *)
(***************************************************************************)
\* the file names whose aliases are resolved, from the directory sourceDir
AliasRequests == { << "m" >>, << "m", "/", "l", "i", "b" >>, << "k" >>, << "/", "p", "/", "s", "/", "x", ".", "j", "s" >>, << "@", "l", "/", "c" >> }

AliasPkgFiles == { << "/", "p", "/", "s", "/", "p", "a", "c", "k", "a", "g", "e", ".", "j", "s", "o", "n" >>, << "/", "p", "/", "p", "a", "c", "k", "a", "g", "e", ".", "j", "s", "o", "n" >> }

AliasTexts == { TextAliasFalse, TextBrowserFalse, TextAliasStr, TextSourceObj }

\* the file systems of the alias resolution: the package of sourceDir and the
\* root package, each with one of the texts or missing, and reached through a
\* link (a linked package keeps its source field)
AliasFileSystems ==
  { [ files |-> { << "/", "p", "/", "s", "/", "x", ".", "j", "s" >> }, fifos |-> {}, dirs |-> { sourceDir }, pkgText |-> t,
      links |-> DOMAIN t ] :
      t \in UNION { [ d -> AliasTexts ] : d \in SUBSET AliasPkgFiles } }

\* the alias tables resolvePackageAliases consults, in its order (358-360)
AliasTables(pkg) == << pkg.source, pkg.alias, getBrowserField(pkg) >>

\* what loadAlias(fileName, dir) and the functions under it give, found
\* being findPackage(dir) after the root package was loaded
AliasCallOf(fs, alias, fileName, found) ==
  [ called |-> TRUE, fileName |-> fileName, pkg |-> found.v, root |-> found.r.root,
    alias |-> [ i \in 1..3 |->
                  getAlias(fs, fileName, found.v.pkgdir, AliasTables(found.v)[i]) ],
    packageAliases |-> resolvePackageAliases(fs, fileName, found.v),
    aliases |-> resolveAliases(fs, found.r.root, fileName, found.v),
    loaded |-> LoadAliasResult(fs, alias, fileName, found).v ]

\* loadAlias(fileName, sourceDir) (306-317) is called
LoadAlias(fileName) ==
  /\ aliasCall' = AliasCallOf(fileSystem, options.alias, fileName,
                              findPackage(fileSystem, WithRoot(fileSystem, reader), sourceDir))
  /\ reader' = loadAlias(fileSystem, reader, options.alias, fileName, sourceDir).r
  /\ UNCHANGED <<distVars, assetVars, fileSystem, cache, calls, firstRet, resCalls,
                 fsOps, pkgVars, walkVars>>

InitAlias ==
  /\ options \in [ alias : AliasConfigs ]
  /\ InitUnusedAsset
  /\ fileSystem \in AliasFileSystems
  /\ reader = NewReader
  /\ InitResCalls
  /\ InitPkgCalls
  /\ aliasCall = NoAliasCall
  /\ InitWalkVars

NextAlias == \E fileName \in AliasRequests : LoadAlias(fileName)

SpecAlias == InitAlias /\ [][NextAlias]_vars
(***************************************************************************)
(* One resolve() call followed through its loops and its recursion         *)
(***************************************************************************)
MaxWalkCalls == 2

\* the bound on the depth of the loadDirectory recursion that is followed
MaxDepth == 3

\* the resolve(request, parent) calls followed; the parents lie below
\* rootDir, in a module of node_modules, and outside rootDir
WalkArgs ==
  { << << "~", "x" >>, << "/", "p", "/", "s", "/", "a", ".", "t", "s" >> >>, << << "~", "x" >>, << "/", "p", "/", "n", "o", "d", "e", "_", "m", "o", "d", "u", "l", "e", "s", "/", "m", "/", "l", "i", "b", "/", "a", ".", "j", "s" >> >>,
    << << "~", "x" >>, << "/", "q", "/", "a", ".", "j", "s" >> >>, << << ".", "/", "d" >>, << "/", "p", "/", "s", "/", "a", ".", "t", "s" >> >>, << << "m" >>, << "/", "p", "/", "s", "/", "a", ".", "t", "s" >> >>,
    << << "m" >>, << >> >> }

DirPackage == << "/", "p", "/", "s", "/", "d", "/", "p", "a", "c", "k", "a", "g", "e", ".", "j", "s", "o", "n" >>

WalkFileSystems ==
  { FileSystem({ << "/", "p", "/", "x", ".", "t", "s" >>, << "/", "p", "/", "s", "/", "d", "/", "l", "i", "b", "/", "i", "n", "d", "e", "x", ".", "j", "s" >>, << "/", "p", "/", "n", "o", "d", "e", "_", "m", "o", "d", "u", "l", "e", "s", "/", "m", "/", "i", "n", "d", "e", "x", ".", "j", "s" >> }, {},
               DirPackage :> TextMain),
    FileSystem({ << "/", "p", "/", "n", "o", "d", "e", "_", "m", "o", "d", "u", "l", "e", "s", "/", "m", "/", "x", ".", "j", "s" >>, << "/", "p", "/", "s", "/", "d", "/", "i", "n", "d", "e", "x", ".", "t", "s" >> }, {},
               (DirPackage :> TextMain) @@ (ModulePackage :> TextMain)),
    FileSystem({ << "/", "p", "/", "x", ".", "t", "s" >> }, {}, DirPackage :> TextEmpty),
    FileSystem({ << "/", "p", "/", "x", ".", "t", "s" >> }, {}, DirPackage :> TextMainSelf) }

\* the path the load strategies of resolve (52-59) start from
LoadTarget(module, fileName, parent) ==
  IF module.moduleDir # << >> \/ module.filePath # << >> THEN module.filePath
  ELSE resolveFrom(Cwd, <<ParentDir(parent, Cwd), fileName>>)

\* the package the first loadAsFile of the strategy is given: readPackage of
\* the module directory (195), else findPackage (181)
LoadPackage(fs, r, module, target) ==
  IF module.moduleDir # << >> THEN readPackage(fs, r, module.moduleDir)
  ELSE With(findPackage(fs, r, dirname(target)),
            LAMBDA found : [ ok |-> TRUE, v |-> found.v, r |-> found.r ])

\* the load strategy of resolve (52-59, 179-207) up to its loadDirectory
\* call: next is the directory that call is made on (<< >>: there is none)
\* and npkg the package it is given
FirstLoad(fs, r, module, fileName, parent) ==
  IF module.moduleDir = << >> /\ module.filePath = << >> /\ parent = << >>
    THEN [ res |-> NotFound(r), next |-> << >>, npkg |-> NoPkg ]
  ELSE IF module.moduleDir # << >> /\ module.subPath = << >>
    THEN [ res |-> NotFound(r), next |-> module.filePath, npkg |-> NoPkg ]
  ELSE With(LoadPackage(fs, r, module, LoadTarget(module, fileName, parent)),
            LAMBDA read :
              IF ~read.ok THEN [ res |-> NotFound(read.r), next |-> << >>, npkg |-> NoPkg ]
              ELSE With(loadAsFile(fs, read.r, LoadTarget(module, fileName, parent),
                                   ProbeExts(parent), read.v),
                        LAMBDA res :
                          [ res |-> res,
                            next |-> IF res.found THEN << >>
                                     ELSE LoadTarget(module, fileName, parent),
                            npkg |-> IF module.moduleDir # << >> THEN NoPkg ELSE read.v ]))

\* a loadDirectory call that read its package: the entries it has still to try
Frame(dir, entries, pkg) == [ dir |-> dir, entries |-> entries, pkg |-> pkg ]

\* resolve(request, parent) is called (31-49, 75-80): a cache hit returns at
\* once; a '~' request with a parent enters the walk of resolveFilename
ResolveStart(request, parent) ==
  /\ resolving.pc \in { "idle", "returned", "thrown" }
  /\ resCalls < MaxWalkCalls
  /\ resCalls' = resCalls + 1
  /\ resolving' =
       IF getCacheKey(request, parent) \in DOMAIN cache
         THEN [ IdleResolving EXCEPT !.pc = "returned", !.request = request,
                                     !.parent = parent, !.hit = TRUE,
                                     !.result = cache[getCacheKey(request, parent)] ]
       ELSE IF parent # << >> /\ StartsWith(request, << "~" >>)
         THEN [ IdleResolving EXCEPT !.pc = "tilde", !.request = request,
                                     !.parent = parent, !.dir = dirname(parent) ]
       ELSE [ IdleResolving EXCEPT
                !.pc = "module", !.request = request, !.parent = parent,
                !.fileName = IF parent # << >>
                               THEN resolveFilename(fileSystem, request, dirname(parent))
                             ELSE request ]
  /\ UNCHANGED <<distVars, assetVars, fileSystem, cache, reader, calls, firstRet, fsOps,
                 pkgVars, aliasCall, findCall>>

\* one round of the while loop of resolveFilename (287)
TildeStep ==
  /\ resolving.pc = "tilde"
  /\ ~TildeStop(resolving.dir)
  /\ resolving' = [ resolving EXCEPT !.dir = dirname(resolving.dir) ]
  /\ UNCHANGED <<distVars, assetVars, fileSystem, cache, reader, calls, firstRet, resCalls,
                 fsOps, pkgVars, aliasCall, findCall>>

\* the while loop of resolveFilename ends and the '~' case returns (290)
TildeReturn ==
  /\ resolving.pc = "tilde"
  /\ TildeStop(resolving.dir)
  /\ resolving' = [ resolving EXCEPT
                      !.pc = "module",
                      !.fileName = join(<<resolving.dir, Slice1(resolving.request)>>) ]
  /\ UNCHANGED <<distVars, assetVars, fileSystem, cache, reader, calls, firstRet, resCalls,
                 fsOps, pkgVars, aliasCall, findCall>>

\* the call ends with what the load functions found (61-68): it throws, or
\* sets the cache entry and returns
WalkEnd(res) ==
  /\ reader' = res.r
  /\ IF res.found
       THEN /\ cache' = MapSet(cache, getCacheKey(resolving.request, resolving.parent),
                               Resolved(res))
            /\ resolving' = [ resolving EXCEPT !.pc = "returned", !.result = Resolved(res),
                                               !.stack = << >>, !.pending = << >> ]
       ELSE /\ resolving' = [ resolving EXCEPT !.pc = "thrown", !.stack = << >>,
                                               !.pending = << >> ]
            /\ UNCHANGED cache

\* a loadDirectory call returns undefined to its caller: the loadDirectory
\* call above it goes on, and with none above resolve has found nothing
DirectoryFails(r, stack) ==
  IF stack = << >> THEN WalkEnd(NotFound(r))
  ELSE /\ resolving' = [ resolving EXCEPT !.stack = stack, !.pending = << >> ]
       /\ reader' = r
       /\ UNCHANGED cache

\* resolveModule after resolveFilename, and the load strategy up to its
\* loadDirectory call (48-59, 83-112, 179-203)
LoadFirst ==
  /\ resolving.pc = "module"
  /\ With(ModuleOf(fileSystem, reader, options.alias, resolving.fileName, resolving.parent),
          LAMBDA module :
            With(FirstLoad(fileSystem, module.r, module.v, resolving.request,
                           resolving.parent),
                 LAMBDA first :
                   IF first.next = << >> THEN WalkEnd(first.res)
                   ELSE /\ resolving' = [ resolving EXCEPT !.pc = "directory",
                                                           !.pending = first.next,
                                                           !.ppkg = first.npkg ]
                        /\ reader' = first.res.r
                        /\ UNCHANGED cache))
  /\ UNCHANGED <<distVars, assetVars, fileSystem, calls, firstRet, resCalls, fsOps,
                 pkgVars, aliasCall, findCall>>

\* loadDirectory(dir, extensions, pkg) is entered (246-250): with the package
\* read it goes on to the entries; when readPackage throws, only the index
\* file is tried (262-267)
LoadDirectory ==
  /\ resolving.pc = "directory"
  /\ resolving.pending # << >>
  /\ Len(resolving.stack) < MaxDepth
  /\ With(readPackage(fileSystem, reader, resolving.pending),
          LAMBDA read :
            IF read.ok
              THEN /\ resolving' =
                        [ resolving EXCEPT
                            !.stack = Append(@, Frame(resolving.pending,
                                                      getPackageEntries(read.v), read.v)),
                            !.pending = << >> ]
                   /\ reader' = read.r
                   /\ UNCHANGED cache
            ELSE With(loadAsFile(fileSystem, read.r, join(<<resolving.pending, INDEX>>),
                                 ProbeExts(resolving.parent), resolving.ppkg),
                      LAMBDA res : IF res.found THEN WalkEnd(res)
                                   ELSE DirectoryFails(res.r, resolving.stack)))
  /\ UNCHANGED <<distVars, assetVars, fileSystem, calls, firstRet, resCalls, fsOps,
                 pkgVars, aliasCall, findCall>>

\* the stack with the first entry of its top frame taken
EntryTaken(stack) ==
  [ stack EXCEPT ![Len(stack)].entries = Tail(@) ]

\* one round of the for loop of loadDirectory (253-261): the entry is loaded
\* as a file, and when that finds nothing loadDirectory is called on it
LoadEntry ==
  /\ resolving.pc = "directory"
  /\ resolving.pending = << >>
  /\ resolving.stack # << >>
  /\ resolving.stack[Len(resolving.stack)].entries # << >>
  /\ With(resolving.stack[Len(resolving.stack)],
          LAMBDA top :
            With(loadAsFile(fileSystem, reader, top.entries[1],
                            ProbeExts(resolving.parent), top.pkg),
                 LAMBDA res :
                   IF res.found THEN WalkEnd(res)
                   ELSE /\ resolving' = [ resolving EXCEPT
                                            !.stack = EntryTaken(resolving.stack),
                                            !.pending = top.entries[1],
                                            !.ppkg = top.pkg ]
                        /\ reader' = res.r
                        /\ UNCHANGED cache))
  /\ UNCHANGED <<distVars, assetVars, fileSystem, calls, firstRet, resCalls, fsOps,
                 pkgVars, aliasCall, findCall>>

\* after the entries loadDirectory falls back to the index file (267)
LoadIndex ==
  /\ resolving.pc = "directory"
  /\ resolving.pending = << >>
  /\ resolving.stack # << >>
  /\ resolving.stack[Len(resolving.stack)].entries = << >>
  /\ With(resolving.stack[Len(resolving.stack)],
          LAMBDA top :
            With(loadAsFile(fileSystem, reader, join(<<top.dir, INDEX>>),
                            ProbeExts(resolving.parent), top.pkg),
                 LAMBDA res :
                   IF res.found THEN WalkEnd(res)
                   ELSE DirectoryFails(res.r, SubSeq(resolving.stack, 1,
                                                      Len(resolving.stack) - 1))))
  /\ UNCHANGED <<distVars, assetVars, fileSystem, calls, firstRet, resCalls, fsOps,
                 pkgVars, aliasCall, findCall>>

InitWalk ==
  /\ options = [ alias |-> << >> ]
  /\ InitUnusedAsset
  /\ fileSystem \in WalkFileSystems
  /\ reader = NewReader
  /\ InitResCalls
  /\ InitPkgCalls
  /\ aliasCall = NoAliasCall
  /\ InitWalkVars

NextWalk ==
  \/ \E args \in WalkArgs : ResolveStart(args[1], args[2])
  \/ TildeStep
  \/ TildeReturn
  \/ LoadFirst
  \/ LoadDirectory
  \/ LoadEntry
  \/ LoadIndex

SpecWalk == InitWalk /\ [][NextWalk]_vars
(***************************************************************************)
(* findNodeModulePath on its own                                           *)
(***************************************************************************)
\* the module names looked up
FindRequests == { << "m" >>, << "m", "/", "l", "i", "b" >>, << "@", "s", "/", "n", "/", "s", "u", "b" >>, << "k" >> }

\* the directories the walk starts from
FindDirs ==
  { << "/" >>, << "/", "p" >>, << "/", "p", "/", "s" >>, << "/", "p", "/", "s", "/", "a", "/", "b" >>, << "/", "q" >>, << "/", "p", "/", "n", "o", "d", "e", "_", "m", "o", "d", "u", "l", "e", "s" >>, << "/", "p", "/", "n", "o", "d", "e", "_", "m", "o", "d", "u", "l", "e", "s", "/", "m", "/", "l", "i", "b" >>,
    << "/", "p", "/", "n", "o", "d", "e", "_", "m", "o", "d", "u", "l", "e", "s", "/", "n", "o", "d", "e", "_", "m", "o", "d", "u", "l", "e", "s" >>, << "/", "p", "/", "n", "o", "d", "e", "_", "m", "o", "d", "u", "l", "e", "s", "/", "n", "o", "d", "e", "_", "m", "o", "d", "u", "l", "e", "s", "/", "k", "/", "l", "i", "b" >> }

\* modules beside and above sourceDir; a directory named node_modules inside
\* node_modules; a node_modules directory in the root directory
FindFileSystems ==
  { FileSystem({ << "/", "p", "/", "n", "o", "d", "e", "_", "m", "o", "d", "u", "l", "e", "s", "/", "m", "/", "i", "n", "d", "e", "x", ".", "j", "s" >>, << "/", "p", "/", "n", "o", "d", "e", "_", "m", "o", "d", "u", "l", "e", "s", "/", "@", "s", "/", "n", "/", "s", "u", "b", ".", "j", "s" >>,
                 << "/", "p", "/", "s", "/", "n", "o", "d", "e", "_", "m", "o", "d", "u", "l", "e", "s", "/", "m", "/", "i", ".", "j", "s" >>, << "/", "p", "/", "n", "o", "d", "e", "_", "m", "o", "d", "u", "l", "e", "s", "/", "m", "/", "n", "o", "d", "e", "_", "m", "o", "d", "u", "l", "e", "s", "/", "k", "/", "i", ".", "j", "s" >> },
               {}, << >>),
    FileSystem({ << "/", "p", "/", "n", "o", "d", "e", "_", "m", "o", "d", "u", "l", "e", "s", "/", "n", "o", "d", "e", "_", "m", "o", "d", "u", "l", "e", "s", "/", "m", "/", "i", "n", "d", "e", "x", ".", "j", "s" >>,
                 << "/", "p", "/", "n", "o", "d", "e", "_", "m", "o", "d", "u", "l", "e", "s", "/", "n", "o", "d", "e", "_", "m", "o", "d", "u", "l", "e", "s", "/", "k", "/", "l", "i", "b", "/", "i", ".", "j", "s" >> }, {}, << >>),
    FileSystem({ << "/", "n", "o", "d", "e", "_", "m", "o", "d", "u", "l", "e", "s", "/", "m", "/", "i", "n", "d", "e", "x", ".", "j", "s" >>, << "/", "p", "/", "n", "o", "d", "e", "_", "m", "o", "d", "u", "l", "e", "s", "/", "k", "/", "i", ".", "j", "s" >> }, {}, << >>) }

\* findNodeModulePath(filename, dir) (115-144) is called
FindNodeModulePath(filename, dir) ==
  /\ findCall' = [ called |-> TRUE, filename |-> filename, dir |-> dir,
                   module |-> findNodeModulePath(fileSystem, filename, dir) ]
  /\ UNCHANGED <<distVars, assetVars, fileSystem, cache, reader, calls, firstRet, resCalls,
                 fsOps, pkgVars, aliasCall, resolving>>

InitFind ==
  /\ options = [ alias |-> << >> ]
  /\ InitUnusedAsset
  /\ fileSystem \in FindFileSystems
  /\ reader = NewReader
  /\ InitResCalls
  /\ InitPkgCalls
  /\ aliasCall = NoAliasCall
  /\ InitWalkVars

NextFind == \E filename \in FindRequests, dir \in FindDirs : FindNodeModulePath(filename, dir)

SpecFind == InitFind /\ [][NextFind]_vars

(***************************************************************************)
(* The Dist-Path Mapper and the Asset pipeline: specifications             *)
(***************************************************************************)
InitDistVars ==
  /\ options \in [ alias : AliasConfigs ]
  /\ distCache = EmptyMap
  /\ lastGen = NoGen
  /\ genCalls = 0

InitAssetVars ==
  /\ asset \in { NewAsset(n) : n \in AssetNames }
  /\ fileContents \in FileTexts
  /\ pc = "idle"
  /\ queue = << >>
  /\ trace = << >>
  /\ lastOut = NoOut
  /\ disk = EmptyMap
  /\ processCalls = 0

\* The Dist-Path Mapper alone: generateDistPath calls of one build
InitDist ==
  /\ InitDistVars
  /\ asset = NewAsset(<< "/", "p", "/", "s", "/", "a", ".", "e", "s" >>)
  /\ fileContents = << >>
  /\ pc = "unused"
  /\ queue = << >>
  /\ trace = << >>
  /\ lastOut = NoOut
  /\ disk = EmptyMap
  /\ processCalls = 0
  /\ InitUnusedResolver

NextDist == \E sourcePath \in SourcePaths, ext \in DistExts : GenerateDistPath(sourcePath, ext)

SpecDist == InitDist /\ [][NextDist]_vars

\* One Asset of a build, its process() calls interleaved with the other
\* generateDistPath calls for its source path (resolveAliasName, 600, and the
\* Assets that depend on it, 599): the calls that share its cache entry
InitAsset == InitDistVars /\ InitAssetVars /\ InitUnusedResolver

NextAsset ==
  \/ Process
  \/ LoadIfNeeded
  \/ Pretransform
  \/ GetDependencies
  \/ Transform
  \/ Generate
  \/ Output
  \/ Invalidate
  \/ \E ext \in DistExts : GenerateDistPath(asset.name, ext)

SpecAsset == InitAsset /\ [][NextAsset]_vars

(***************************************************************************)
(* Claims about the Dist-Path Mapper and the Asset pipeline                *)
(***************************************************************************)
\* p lies under the directory dir
UnderDir(dir, p) == StartsWith(p, dir \o SEP)

\* p with its extension reconciled to ext: ext appended when p has no
\* extension, the extension replaced by ext when ext is set and differs
ExtReconciled(p, ext) ==
  IF extname(p) = << >> THEN p \o ext
  ELSE IF ext # << >> /\ extname(p) # ext
    THEN SubSeq(p, 1, Len(p) - Len(extname(p))) \o ext
  ELSE p

RECURSIVE FirstAliasOver(_, _)
\* the first entry of the alias table whose path p lies under, << >> when none
FirstAliasOver(aliasDirs, p) ==
  IF aliasDirs = << >> THEN << >>
  ELSE IF UnderDir(normalizeAlias(aliasDirs[1][2]).path, p) THEN aliasDirs[1]
  ELSE FirstAliasOver(Tail(aliasDirs), p)

\* outDir/<aliasDist or npm>/<aliasName>/<path relative to the alias root>
AliasDistPath(entry, p) ==
  join(<<outDir,
         IF normalizeAlias(entry[2]).dist # << >> THEN normalizeAlias(entry[2]).dist
         ELSE DEFAULT_NPM_DIR,
         entry[1],
         relativeFrom(Cwd, normalizeAlias(entry[2]).path, p)>>)

\* C3: generateDistPath(sourcePath, ext) is determined by (sourcePath, ext)
\* alone: whatever calls were made before it, a call returns the path the same
\* call returns when no call was made before it.
C3_DeterminedByArguments ==
  lastGen.called =>
    lastGen.result = ComputeDistPath(options.alias, lastGen.sourcePath, lastGen.ext)

\* C4: for every sourcePath under sourceDir and every alias table,
\* generateDistPath returns outDir/<relative(sourceDir, sourcePath)> with the
\* extension reconciled to ext, also when the relative path has a node_modules
\* or npm segment.
C4_SourceDirRuleWins ==
  (lastGen.called /\ UnderDir(sourceDir, lastGen.sourcePath)) =>
    lastGen.result =
      ExtReconciled(join(<<outDir, relativeFrom(Cwd, sourceDir, lastGen.sourcePath)>>),
                    lastGen.ext)

\* C5: for every sourcePath not under sourceDir that lies under the path of an
\* alias entry, generateDistPath (computing, not answering from its cache)
\* returns outDir/<aliasDist>/<aliasName>/<relative path> when the first such
\* alias has a dist and outDir/npm/<aliasName>/<relative path> when it has
\* none, the extension reconciled; no later rule rewrites it.
C5_AliasRuleDecides ==
  (/\ lastGen.called
   /\ ~lastGen.hit
   /\ ~UnderDir(sourceDir, lastGen.sourcePath)
   /\ FirstAliasOver(options.alias, lastGen.sourcePath) # << >>) =>
    lastGen.result =
      ExtReconciled(AliasDistPath(FirstAliasOver(options.alias, lastGen.sourcePath),
                                  lastGen.sourcePath),
                    lastGen.ext)

\* C6: when a process() call is done, its phase invocations were exactly load,
\* pretransform, getDependencies, transform, generate, each once and in that
\* order, then output once per generated item, whatever the load returned.
C6_PhasesOnceInOrder ==
  pc = "done" =>
    trace = <<"load", "pretransform", "getDependencies", "transform", "generate">>
            \o [ i \in 1..Len(asset.generated) |-> "output" ]

\* C7: an output() call whose distPath lies outside outDir (its path relative
\* to outDir starts with "..") returns ignore = true, writes no file and
\* creates no directory; a call that returns ignore = false wrote exactly one
\* file, at the distPath it computed, which lies inside outDir.
C7_OutsideOutDirIgnored ==
  lastOut.called =>
    /\ StartsWith(relativeFrom(Cwd, outDir, lastOut.target), DOTDOT) =>
         (lastOut.ignore /\ lastOut.wrote = << >> /\ lastOut.ensured = << >>)
    /\ ~lastOut.ignore =>
         /\ Len(lastOut.wrote) = 1
         /\ lastOut.wrote[1].path = lastOut.target
         /\ lastOut.target = asset.distPath
         /\ lastOut.target \in DOMAIN disk
         /\ ~StartsWith(relativeFrom(Cwd, outDir, lastOut.target), DOTDOT)

\* C7 witness: an output() call found its distPath outside outDir, ignored
\* the Asset and wrote nothing.
C7_Witness ==
  /\ lastOut.called
  /\ lastOut.ignore
  /\ StartsWith(lastOut.distPath, DOTDOT)
  /\ lastOut.wrote = << >>


(***************************************************************************)
(* Claims about the Resolver                                               *)
(***************************************************************************)
\* C1 (as stated): whenever resolve returns a result, freshly computed or
\* answered from the cache, the returned path is an existing regular file or
\* FIFO at the moment of return, also after file system changes between calls.
C1_ReturnedPathExists ==
  \A c \in Callers : calls[c].pc = "returned" => calls[c].existed

\* C1 (amended): whenever resolve returns a result it computed on a cache
\* miss, the returned path is an existing regular file or FIFO at the moment
\* of return, after any sequence of earlier resolve calls and file system
\* changes between calls.
C1_FreshPathExists ==
  \A c \in Callers :
    calls[c].pc = "returned" /\ ~calls[c].hit => calls[c].existed

\* a call returned a path it had computed, an existing file, and a later call
\* was answered from the cache with a path that exists no more
C1_Witness ==
  \E c, d \in Callers :
    /\ calls[c].pc = "returned" /\ ~calls[c].hit /\ calls[c].existed
    /\ calls[d].pc = "returned" /\ calls[d].hit /\ ~calls[d].existed

\* C2: once resolve(r, p) has returned a value, every later resolve(r, p)
\* returns that same value, and a cache entry, once written, is never changed
\* or removed by a later step of the Resolver.
C2_RepeatCallsSameValue ==
  [][ /\ \A k \in DOMAIN cache : k \in DOMAIN cache' /\ cache'[k] = cache[k]
      /\ \A c \in Callers :
           calls'[c].pc = "returned" =>
             calls'[c].result = firstRet'[<<calls'[c].request, calls'[c].parent>>] ]_vars

\* C8: for every interleaving of concurrent readPackage calls on one shared
\* Resolver (no readPackageSync call among them), the content of each
\* package.json is read at most once, and the package cache entry of a
\* pkgfile is set once, never replaced by another record.
C8_ReadOnceNeverReplaced ==
  ~syncRet.called =>
    \A f \in PkgFiles :
      /\ f \in DOMAIN pkgReads => pkgReads[f] <= 1
      /\ f \in DOMAIN pkgSets => pkgSets[f] <= 1

\* C9: for a package.json that is not reached through a symlink, the record
\* stored in the package cache has no source field, whether readPackage or
\* readPackageSync read it first, and both operations produce the same record
\* for the same directory.
C9_SourceStrippedBothWays ==
  /\ \A f \in DOMAIN reader.pcache :
       f \notin fileSystem.links => reader.pcache[f].source = NoVal
  /\ syncRet.called /\ syncRet.ok =>
       syncRet.pkg = readPackage(fileSystem, NewReader, syncRet.dir).v

\* the keys under which getAlias looks fileName up in an alias table (378-391)
AliasKeys(fileName, dir) ==
  IF isAbsolute(fileName) THEN { AliasRelative(relativeFrom(Cwd, dir, fileName)) }
  ELSE { fileName, getModuleParts(fileName)[1] }

\* the alias table maps the request, or its module head, to the literal false
MapsToFalse(table, fileName, dir) ==
  /\ table.t = "obj"
  /\ \E key \in AliasKeys(fileName, dir) : Lookup(table.o, key).t = "false"
  /\ Lookup(table.o, fileName).t \in { "none", "false" }

\* C10: when an alias table of the package (source in object form, alias, or
\* the browser field) maps the request or its module head to false, getAlias
\* returns the empty string, and resolvePackageAliases, resolveAliases and
\* loadAlias yield the empty string.
C10_FalseAliasYieldsEmpty ==
  \A i \in 1..3 :
    aliasCall.called /\ aliasCall.pkg.present
      /\ MapsToFalse(AliasTables(aliasCall.pkg)[i], aliasCall.fileName, aliasCall.pkg.pkgdir)
    => /\ aliasCall.alias[i] = Str(<< >>)
       /\ aliasCall.packageAliases = << >>
       /\ aliasCall.aliases = << >>
       /\ aliasCall.loaded = << >>

(***************************************************************************)
(* Claims about the walks and the recursion of one resolve() call          *)
(***************************************************************************)
RECURSIVE Ancestors(_)
\* dir and the directories above it, nearest first
Ancestors(dir) ==
  IF dirname(dir) = dir THEN << dir >> ELSE << dir >> \o Ancestors(dirname(dir))

\* the places among dir and its ancestors of the directories whose parent is
\* named node_modules
ModuleRoots(dir) ==
  { i \in 1..Len(Ancestors(dir)) : basename(dirname(Ancestors(dir)[i])) = NODE_MODULES }

\* the place of rootDir among dir and its ancestors
RootPlaces(dir) == { i \in 1..Len(Ancestors(dir)) : Ancestors(dir)[i] = rootDir }

Least(S) == CHOOSE x \in S : \A y \in S : x <= y

\* the directory a '~' request from dir is resolved against: the nearest
\* ancestor-or-self whose parent is named node_modules when one is met before
\* rootDir, rootDir otherwise
TildeBase(dir) ==
  IF ModuleRoots(dir) # {}
       /\ (RootPlaces(dir) = {} \/ Least(ModuleRoots(dir)) <= Least(RootPlaces(dir)))
    THEN Ancestors(dir)[Least(ModuleRoots(dir))]
  ELSE rootDir

\* the resolve call followed is past the resolveFilename of a '~' request
TildeReturned ==
  /\ resolving.pc \notin { "idle", "tilde" }
  /\ ~resolving.hit
  /\ resolving.parent # << >>
  /\ StartsWith(resolving.request, << "~" >>)

\* C11: for every directory dir and tail t, resolveFilename('~' + t, dir)
\* returns: its walk never stays at a directory it cannot leave, and the value
\* returned is join(A, t), A being the nearest ancestor-or-self of dir whose
\* parent is named node_modules if one is met before rootDir, and rootDir
\* otherwise.
C11_TildeJoinsNearestBase ==
  /\ resolving.pc = "tilde" /\ ~TildeStop(resolving.dir) =>
       dirname(resolving.dir) # resolving.dir
  /\ TildeReturned =>
       resolving.fileName = join(<< TildeBase(dirname(resolving.parent)),
                                    Slice1(resolving.request) >>)

(***************************************************************************)
(* Claims about the failure and the cache of resolve                       *)
(***************************************************************************)
\* the strategy for the module tries a file-load before its directory-load:
\* always, except for a module of node_modules named without a sub-path
FileLoadTried(module) == module.moduleDir = << >> \/ module.subPath # << >>

\* a strategy finds a file for the module: the file-load or the
\* directory-load at the path of the module, or at the sibling of parent,
\* a package that cannot be read counting as no package
StrategyFindsFor(fs, r, module, fileName, parent) ==
  /\ module.moduleDir # << >> \/ module.filePath # << >> \/ parent # << >>
  /\ \/ /\ FileLoadTried(module)
        /\ loadAsFile(fs, r, LoadTarget(module, fileName, parent), ProbeExts(parent),
                      LoadPackage(fs, r, module, LoadTarget(module, fileName, parent)).v).found
     \/ loadDirectory(fs, r, LoadTarget(module, fileName, parent), ProbeExts(parent),
                      NoPkg).found

\* some strategy of resolve(fileName, parent) finds a file
StrategyFinds(fs, r, alias, fileName, parent) ==
  StrategyFindsFor(fs, r, resolveModule(fs, r, alias, fileName, parent).v, fileName, parent)

\* C12: a resolve call that ends either returns or fails with the
\* module-not-found error; it fails exactly when no strategy (node_modules
\* load, file-load, directory-load, sibling-of-parent) finds a file, a
\* missing or malformed package.json or a failed stat being no more than a
\* negative probe; and a failed call leaves the resolver cache unchanged,
\* entries being added only on success.
C12_FailsExactlyWhenNothingFound ==
  [][ \A c \in Callers :
        calls[c].pc = "computing" /\ calls'[c].pc # "computing" =>
          /\ calls'[c].pc \in { "returned", "thrown" }
          /\ (calls'[c].pc = "thrown") =
               ~StrategyFinds(fileSystem, reader, options.alias, calls[c].request,
                              calls[c].parent)
          /\ calls'[c].pc = "thrown" => cache' = cache
          /\ calls'[c].pc = "returned" =>
               cache' = MapSet(cache, getCacheKey(calls[c].request, calls[c].parent),
                               calls'[c].result) ]_vars

(***************************************************************************)
(* Claims about Asset.output                                               *)
(***************************************************************************)
\* the step is one round of the for loop of process(): an output() call
OutputStep == pc = "output" /\ queue # << >> /\ queue' = Tail(queue)

\* C13: when Asset.distPath is unset, the path output(code, ext, map) writes
\* to is generateDistPath(name, ext), for every source name and every ext,
\* ext = '' included: output reconciles the extension as generateDistPath
\* does and changes nothing else.
C13_OutputPathIsGeneratedPath ==
  [][ OutputStep /\ asset.distPath = << >> /\ lastOut'.wrote # << >> =>
        lastOut'.wrote[1].path =
          generateDistPath(distCache, options.alias, asset.name, Head(queue).ext) ]_vars

\* the items generate() returned have pairwise distinct ext values
DistinctExts(generated) ==
  \A i, j \in 1..Len(generated) : i # j => generated[i].ext # generated[j].ext

\* C17: when generate() returns items with pairwise distinct ext values, one
\* process() call writes each item to its own dist path, whose extension is
\* the ext of the item: no item is written over the file of an earlier item
\* of the same Asset.
C17_EachItemOwnPath ==
  [][ OutputStep /\ DistinctExts(asset.generated) /\ lastOut'.wrote # << >> =>
        /\ extname(lastOut'.wrote[1].path) = Head(queue).ext
        /\ Len(queue) < Len(asset.generated) /\ lastOut.wrote # << >> =>
             lastOut'.wrote[1].path # lastOut.wrote[1].path ]_vars

(***************************************************************************)
(* Claims about findNodeModulePath                                         *)
(***************************************************************************)
\* the module head of a request: its first segment, or its first two for a
\* scoped '@scope/name'
ModuleHead(filename) ==
  IF StartsWith(filename, << "@" >>) /\ Len(Split(filename)) >= 2
    THEN Split(filename)[1] \o SEP \o Split(filename)[2]
  ELSE Split(filename)[1]

\* the places among dir and its ancestors of the directories D, none of them
\* named node_modules, in which D/node_modules/<head> is a directory
ModulePlaces(fs, filename, dir) ==
  { i \in 1..Len(Ancestors(dir)) :
      /\ basename(Ancestors(dir)[i]) # NODE_MODULES
      /\ isDirectory(fs, join(<< Ancestors(dir)[i], NODE_MODULES, ModuleHead(filename) >>)) }

\* C14: findNodeModulePath(request, dir) returns the module directory
\* D/node_modules/<moduleHead> for the nearest ancestor-or-self D of dir in
\* which that directory exists, a scoped '@scope/name' counting as one head
\* and a directory named node_modules never being used as D, and it returns
\* no result when no ancestor contains the module.
C14_NearestModuleDir ==
  findCall.called =>
    IF ModulePlaces(fileSystem, findCall.filename, findCall.dir) = {}
      THEN findCall.module = NoModule
    ELSE findCall.module.moduleDir =
           join(<< Ancestors(findCall.dir)[Least(ModulePlaces(fileSystem, findCall.filename,
                                                               findCall.dir))],
                   NODE_MODULES, ModuleHead(findCall.filename) >>)

(***************************************************************************)
(* Claims about resolve on an instance that has resolved before            *)
(***************************************************************************)
\* C15: on an unchanged file system, resolve(request, parent) returns the
\* file that a fresh Resolver would resolve (request, parent) to, whatever
\* resolve calls were made before on the instance: each parent gets the
\* candidate with its own extension probed first.
C15_SameAsFreshResolver ==
  fsOps = 0 =>
    \A c \in Callers :
      calls[c].pc = "returned" =>
        /\ ResolveMiss(fileSystem, NewReader, options.alias, calls[c].request,
                       calls[c].parent).found
        /\ calls[c].result.path =
             ResolveMiss(fileSystem, NewReader, options.alias, calls[c].request,
                         calls[c].parent).path

\* the directories of the loadDirectory calls in progress, outermost first
LoadingDirs ==
  [ i \in 1..Len(resolving.stack) |-> resolving.stack[i].dir ]
    \o (IF resolving.pending # << >> THEN << resolving.pending >> ELSE << >>)

\* C16: every resolve(request, parent) call with absolute sourceDir, rootDir
\* and parent terminates on every finite file system and every package.json
\* content: each round of the '~' walk moves to a proper parent directory
\* until the walk stops, and the recursion of loadDirectory through the
\* package entry fields is never entered for a directory whose loadDirectory
\* call is still in progress (a call that is would repeat itself for ever).
C16_ResolveTerminates ==
  /\ resolving.pc = "tilde" /\ ~TildeStop(resolving.dir) =>
       dirname(resolving.dir) # resolving.dir
  /\ \A i, j \in 1..Len(LoadingDirs) : i # j => LoadingDirs[i] # LoadingDirs[j]

====
